---- MODULE Spec2Model ----
(***************************************************************************)
(* Model of the browser-resident counter and security utilities:           *)
(*   CounterSystem  (counter-system.js): page counters kept in a remote    *)
(*                   table and mirrored in localStorage;                   *)
(*   SecuritySystem (security.js): rate limiting, CSRF token, session.     *)
(*                                                                         *)
(* Several tabs of one browser run the code.  They share localStorage and  *)
(* the remote store; each tab has its own sessionStorage and its own       *)
(* CounterSystem instance.  A storage key is a sequence of segments        *)
(* (<<"fresko_counter_", "main", "_history">>), so that startsWith and     *)
(* includes can be computed on it; a stored string is a sequence of        *)
(* characters / tokens.                                                    *)
(***************************************************************************)
EXTENDS Integers, Sequences, FiniteSets, TLC

\* ------------------------------------------------------------------ bounds
MaxCalls == 3          \* counter operations started, over all tabs
InitLocalMax == 2      \* largest local mirror value present when the page loads
MaxSyncCalls == 2      \* counter operations started while two reconciliations are followed
MaxQueueCalls == 2     \* page visits counted while the pending queue is followed
MaxLocalCalls == 2     \* counter operations started while the mode tests are followed
MaxGetCalls == 2       \* counter operations started while the reads are followed
MaxModeCalls == 2      \* counter operations started while the mode is followed
MaxClickCalls == 2     \* click and reconciliation calls while clicks are followed
MaxRaceCalls == 2      \* page visits counted while concurrent sessions are followed
MaxMirrorCalls == 2    \* counter operations started while the local mirrors are followed
MaxHistoryCalls == 3   \* counter operations started while the histories are followed
MaxHistoryTicks == 2   \* times the clock is advanced while the histories are followed
MaxHistoryRoom == 1    \* entries the histories are short of their caps when the page loads
MaxTasks == 2          \* asynchronous counter operations in flight per tab
InitRemoteMax == 2     \* largest remote count present when the page loads

Tabs == {"A", "B"}
CounterIds == {<<"main">>}
ButtonIds == {<<"buy">>}
OptionSet == {"page"}
\* the options of successive calls, which tell queued requests apart
CallOptions == <<"page", "promo", "banner", "footer">>
QueueOptions == {CallOptions[i] : i \in DOMAIN CallOptions}
Slots == 1..MaxTasks

\* ------------------------------------------------------- storage primitives
null == [kind |-> "null"]
NaN == -1              \* parseInt's NaN; every parsed count is >= 0

Text(s) == [kind |-> "text", v |-> s]
Json(x) == [kind |-> "json", v |-> x]

getItem(store, key) == IF key \in DOMAIN store THEN store[key] ELSE null

setItem(store, key, value) ==
    [k \in DOMAIN store \cup {key} |-> IF k = key THEN value ELSE store[k]]

removeItem(store, key) == [k \in DOMAIN store \ {key} |-> store[k]]

ObjectKeys(store) == DOMAIN store

startsWith(key, seg) == Len(key) >= 1 /\ key[1] = seg

includes(key, seg) == \E i \in 1..Len(key) : key[i] = seg

EmptyStore == [k \in {} |-> null]

\* ---------------------------------------------- number <-> string conversion
DigitChars == <<"0", "1", "2", "3", "4", "5", "6", "7", "8", "9">>

DigitValue(c) == (CHOOSE i \in 1..10 : DigitChars[i] = c) - 1

IsDigit(c) == \E i \in 1..10 : DigitChars[i] = c

RECURSIVE toString(_)
toString(n) ==
    IF n < 10 THEN <<DigitChars[n + 1]>>
    ELSE toString(n \div 10) \o <<DigitChars[(n % 10) + 1]>>

RECURSIVE ParseDigits(_, _, _)
ParseDigits(s, i, acc) ==
    IF i > Len(s) \/ ~IsDigit(s[i]) THEN acc
    ELSE ParseDigits(s, i + 1, acc * 10 + DigitValue(s[i]))

\* parseInt: the leading run of digits, NaN when there is none
parseInt(value) ==
    IF value.kind # "text" THEN NaN
    ELSE IF Len(value.v) = 0 \/ ~IsDigit(value.v[1]) THEN NaN
    ELSE ParseDigits(value.v, 1, 0)

\* `parseInt(x) || 0`
OrZero(n) == IF n = NaN \/ n = 0 THEN 0 ELSE n

Max(a, b) == IF a >= b THEN a ELSE b

\* JS truthiness of a getItem result
Truthy(value) == value.kind # "null" /\ ~(value.kind = "text" /\ Len(value.v) = 0)

\* --------------------------------------------------------------- variables
VARIABLES
    localStorage,      \* durable store, shared by the tabs
    sessionStorage,    \* volatile store of each tab
    page_counters,     \* remote table: counter id -> count
    sys,               \* per tab: the CounterSystem instance's fields
    tasks,             \* per tab and slot: an asynchronous operation in flight
    ret,               \* the most recent return of an operation
    calls,             \* number of counter operations started
    returned,          \* per tab and counter: largest getCounterValue result so far
    enqueued,          \* per tab: every request ever pushed on pendingIncrements
    drained,           \* per tab: the requests initialize() has re-submitted
    changes,           \* per tab and counter: writes by incrementCounter that
                       \* changed the local mirror / the remote count
    click_counters,    \* remote table: button id -> click_count
    succ,              \* per tab: two syncWithDatabase runs in succession
    now,               \* Date.now(), in ms since the page was first loaded
    random,            \* number of random strings generated so far
    result,            \* the most recent return of a SecuritySystem method
    rateArgs,          \* per action: the limit and interval its callers pass
    rateCalls,         \* per tab and action: calls made since the bucket was absent
    rateFirst,         \* per tab and action: the time of the first of them
    windowAllowed,     \* per tab and action: calls allowed since the last reset
    allowedAt,         \* per tab and action: time and window of the latest allowed
                       \* calls since the bucket was absent
    deniedUntil,       \* per tab and action: resetTime of the bucket that last denied
                       \* a call, 0 before any denial
    creator,           \* the tab whose createSession wrote the current record
    ticks,             \* number of times the clock was advanced
    teardown,          \* why validateSession last destroyed the session
                       \* ("expired", "mismatch"); "none" since the last createSession
    forms,             \* per tab and form: the token its submit handler holds
    giveaways,             \* remote row of the giveaway: winners_count, is_finished
    giveaway_participants, \* remote rows of the giveaway's participants
    giveaway_winners,      \* remote table: user ids of the rows inserted
    selection,             \* the local variables of the selectWinners call in flight
    selected,              \* the most recent return of selectWinners
    inserts,               \* rows inserted into giveaway_winners by the latest selectWinners call
    finish,                \* per caller: its finishGiveaway call
    users,                 \* remote table users: the role of each row, NoRow once deleted
    deletion               \* per admin: the deleteUser call of its panel

counterVars == <<page_counters, sys, tasks, ret, calls, returned, enqueued, drained, changes,
                 click_counters, succ>>
secVars == <<now, ticks, random, result, rateArgs, rateCalls, rateFirst, windowAllowed, allowedAt,
            deniedUntil,
            creator, teardown, forms>>
adminVars == <<giveaways, giveaway_participants, giveaway_winners, selection, selected,
              inserts, finish, users, deletion>>
vars == <<localStorage, sessionStorage, counterVars, secVars, adminVars>>

\* ------------------------------------------------------------ CounterSystem
localStoragePrefix == "fresko_counter_"
sessionPrefix == "counter_visited_"

CounterKey(counterId) == <<localStoragePrefix>> \o counterId
SessionKey(counterId) == <<sessionPrefix>> \o counterId

\* new CounterSystem(supabaseClient)
NewCounterSystem ==
    [fallbackEnabled |-> TRUE, initialized |-> FALSE,
     pendingIncrements |-> <<>>, initializing |-> FALSE]

Task(op, pc, counterId, options, newCount, idx, keys) ==
    [op |-> op, pc |-> pc, counterId |-> counterId, options |-> options,
     newCount |-> newCount, idx |-> idx, keys |-> keys]

IdleTask == Task("none", "idle", <<>>, "", 0, 0, {})

NoReturn == [tab |-> "", fn |-> "none", get |-> FALSE, counterId |-> <<>>, value |-> 0]

\* the local mirror as getCounterValue and incrementLocal read it
LocalCount(ls, counterId) == OrZero(parseInt(getItem(ls, CounterKey(counterId))))

\* the mirror starts again from 1 once it holds more than one visit
incrementLocalRestarting(ls, counterId, options) ==
    LET key == CounterKey(counterId)
        count == IF LocalCount(ls, counterId) > 1 THEN 1 ELSE LocalCount(ls, counterId) + 1
        details == [options |-> options]
    IN  setItem(setItem(ls, key, Text(toString(count))),
                key \o <<"_details">>, Json(details))

\* incrementLocal(counterId, options): the store it leaves
incrementLocal(ls, counterId, options) ==
    LET key == CounterKey(counterId)
        count == LocalCount(ls, counterId) + 1
        details == [options |-> options]
    IN  setItem(setItem(ls, key, Text(toString(count))),
                key \o <<"_details">>, Json(details))

HistoryCap == 100

\* new Date().toISOString(): the instant, as the millisecond count it prints
toISOString(time) == [iso |-> time]

\* history.slice(0, cap): the oldest entries are the ones kept
SliceFirst(history, cap) ==
    IF Len(history) > cap THEN SubSeq(history, 1, cap) ELSE history

\* history.slice(-cap)
SliceLast(history, cap) ==
    IF Len(history) > cap
    THEN SubSeq(history, Len(history) - cap + 1, Len(history))
    ELSE history

\* saveToHistory(counterId, options): the store it leaves
saveToHistory(ls, counterId, options) ==
    LET historyKey == CounterKey(counterId) \o <<"_history">>
        stored == getItem(ls, historyKey)
        history == IF stored.kind = "json" THEN stored.v ELSE <<>>
        pushed == Append(history, [timestamp |-> toISOString(now),
                                   counterId |-> counterId, options |-> options])
    IN  setItem(ls, historyKey, Json(SliceLast(pushed, HistoryCap)))

\* ---- remote table page_counters (id is the key of a row)
HasRow(table, id) == id \in DOMAIN table

RemoteInsert(table, id, count) ==
    IF HasRow(table, id) THEN table   \* duplicate key: an error result, no row written
    ELSE [k \in DOMAIN table \cup {id} |-> IF k = id THEN count ELSE table[k]]

RemoteUpdate(table, id, count) ==
    IF HasRow(table, id) THEN [table EXCEPT ![id] = count] ELSE table

ReadOutcomes == {"ok", "error", "throw"}
WriteOutcomes == {"ok", "error", "throw"}

\* ---- how a step of an operation ends
\* fn returns value to its caller; an initialize() that awaited it goes on
\* with the next queued increment, or empties the queue after the last one
Complete(t, s, task, ls, ss, table, sysT, fn, viaGet, value) ==
    LET more == task.op = "initialize" /\ task.idx < Len(sysT.pendingIncrements)
        sys2 == IF task.op = "initialize" /\ ~more
                THEN [sysT EXCEPT !.pendingIncrements = <<>>]
                ELSE sysT
        task2 == IF more
                 THEN Task("initialize", "drain", <<>>, "", 0, task.idx + 1, {})
                 ELSE IdleTask
    IN  /\ localStorage' = ls
        /\ sessionStorage' = [sessionStorage EXCEPT ![t] = ss]
        /\ page_counters' = table
        /\ sys' = [sys EXCEPT ![t] = sys2]
        /\ tasks' = [tasks EXCEPT ![t][s] = task2]
        /\ ret' = [tab |-> t, fn |-> fn, get |-> viaGet,
                   counterId |-> task.counterId, value |-> value]
        /\ returned' = IF viaGet
                       THEN [returned EXCEPT ![t][task.counterId] = Max(@, value)]
                       ELSE returned

\* the operation has issued a remote call and waits for its result
Suspend(t, s, task2, table) ==
    /\ tasks' = [tasks EXCEPT ![t][s] = task2]
    /\ page_counters' = table
    /\ UNCHANGED <<localStorage, sessionStorage, sys, ret, returned>>

\* incrementCounter lines 92-102: local increment, max, flag, history, return
IncrementLocalPart(t, s, task, table, newCount) ==
    LET ls1 == incrementLocal(localStorage, task.counterId, task.options)
        localCount == LocalCount(ls1, task.counterId)
        ss1 == setItem(sessionStorage[t], SessionKey(task.counterId), Text(<<"true">>))
        ls2 == saveToHistory(ls1, task.counterId, task.options)
    IN  Complete(t, s, task, ls2, ss1, table, sys[t], "incrementCounter", FALSE,
                 Max(newCount, localCount))

\* a catch block that gives up the remote store
CaughtFallsBack(sysT) == [sysT EXCEPT !.fallbackEnabled = TRUE]

\* the instance after incrementCounter's catch block: no field is assigned
Caught(sysT) == sysT

\* incrementCounter's catch block: return this.incrementLocal(counterId, options)
IncrementCatch(t, s, task) ==
    LET ls1 == incrementLocal(localStorage, task.counterId, task.options)
    IN  Complete(t, s, task, ls1, sessionStorage[t], page_counters, Caught(sys[t]),
                 "incrementCounter", FALSE, LocalCount(ls1, task.counterId))

\* getCounterValue(counterId) from its entry to its remote read; fn is the
\* function whose caller gets the value (incrementCounter returns it as is)
CallGetCounterValue(t, s, task, fn, readPc) ==
    IF ~sys[t].fallbackEnabled /\ sys[t].initialized
    THEN Suspend(t, s, [task EXCEPT !.pc = readPc], page_counters)
    ELSE Complete(t, s, task, localStorage, sessionStorage[t], page_counters, sys[t],
                  fn, TRUE, LocalCount(localStorage, task.counterId))

\* the remote count returned as it is
ReconcileRemoteOnly(remoteCount, localCount) == remoteCount

\* line 139: Math.max(data.count, localCount)
Reconcile(remoteCount, localCount) == Max(remoteCount, localCount)

\* the value read is also written to the local mirror
GetCounterValueReadCaching(t, s, task, fn, outcome) ==
    LET localCount == LocalCount(localStorage, task.counterId)
        value == IF outcome = "ok" /\ HasRow(page_counters, task.counterId)
                 THEN Reconcile(page_counters[task.counterId], localCount)
                 ELSE localCount
        ls1 == setItem(localStorage, CounterKey(task.counterId), Text(toString(value)))
    IN  Complete(t, s, task, ls1, sessionStorage[t], page_counters, sys[t],
                 fn, TRUE, value)

\* getCounterValue after its remote read
GetCounterValueRead(t, s, task, fn, outcome) ==
    LET localCount == LocalCount(localStorage, task.counterId)
        value == IF outcome = "ok" /\ HasRow(page_counters, task.counterId)
                 THEN Reconcile(page_counters[task.counterId], localCount)
                 ELSE localCount
    IN  Complete(t, s, task, localStorage, sessionStorage[t], page_counters, sys[t],
                 fn, TRUE, value)

\* unshift in the place of push
PushFront(pendingIncrements, increment) == <<increment>> \o pendingIncrements

\* line 48: this.pendingIncrements.push({ counterId, options })
Push(pendingIncrements, increment) == Append(pendingIncrements, increment)

\* requests are queued until the queue has been drained
NotReadyUntilDrained(sysT) == ~sysT.initialized \/ sysT.pendingIncrements # <<>>

\* line 47: if (!this.initialized)
NotReady(sysT) == ~sysT.initialized

\* incrementCounter(counterId, options) from its entry to its first remote call
CallIncrementCounter(t, s, task) ==
    IF NotReady(sys[t])
    THEN LET ls1 == incrementLocal(localStorage, task.counterId, task.options)
             sys1 == [sys[t] EXCEPT !.pendingIncrements =
                         Push(@, [counterId |-> task.counterId, options |-> task.options])]
         IN  Complete(t, s, task, ls1, sessionStorage[t], page_counters, sys1,
                      "incrementCounter", FALSE, LocalCount(ls1, task.counterId))
    ELSE IF Truthy(getItem(sessionStorage[t], SessionKey(task.counterId)))
    THEN CallGetCounterValue(t, s, task, "incrementCounter", "flag_read")
    ELSE IF ~sys[t].fallbackEnabled
    THEN Suspend(t, s, [task EXCEPT !.pc = "inc_read"], page_counters)
    ELSE IncrementLocalPart(t, s, task, page_counters, 1)

\* ---- actions
\* bookkeeping: did this step of tab t's incrementCounter write a new value
\* to counterId's local mirror or remote row
CountChanges(t, counterId) ==
    LET remoteOf(table) == IF HasRow(table, counterId) THEN table[counterId] ELSE 0
        localChanged == LocalCount(localStorage', counterId) # LocalCount(localStorage, counterId)
        remoteChanged == remoteOf(page_counters') # remoteOf(page_counters)
    IN  changes' = [changes EXCEPT
                      ![t][counterId].local = @ + (IF localChanged THEN 1 ELSE 0),
                      ![t][counterId].remote = @ + (IF remoteChanged THEN 1 ELSE 0)]

\* no syncWithDatabase run is followed
NoSucc == [phase |-> "none", slot |-> 0, ok |-> TRUE, quiet |-> TRUE,
           pushed |-> FALSE, rewrote |-> FALSE]

\* bookkeeping: two runs of syncWithDatabase in one tab, the second started
\* after the first has returned, with no change of a local mirror since the
\* first one started.  phase: "first" / "second" while that run is in flight
\* in `slot`, "between" and "after" once it has returned; ok: every remote
\* call of the two runs succeeded; quiet: nothing else changed page_counters;
\* pushed: the first run changed page_counters; rewrote: the second run
\* issued an insert or an update.
SyncTrack(t, s, event, outcome) ==
    LET localChanged == \E c \in CounterIds :
                           LocalCount(localStorage', c) # LocalCount(localStorage, c)
        remoteChanged == page_counters' # page_counters
        done == tasks'[t][s].op = "none"
        wrote == tasks'[t][s].pc \in {"sync_insert", "sync_update"}
    IN  succ' = [u \in Tabs |->
            LET cur == succ[u]
            IN  IF localChanged THEN NoSucc
                ELSE IF /\ u = t /\ event = "sync_start" /\ ~sys[t].fallbackEnabled
                        /\ cur.phase \in {"none", "between"}
                THEN [cur EXCEPT !.slot = s,
                                 !.phase = IF cur.phase = "none"
                                           THEN (IF done THEN "between" ELSE "first")
                                           ELSE (IF done THEN "after" ELSE "second")]
                ELSE IF /\ u = t /\ event = "sync_step" /\ cur.slot = s
                        /\ cur.phase \in {"first", "second"}
                THEN [cur EXCEPT !.phase = IF ~done THEN @
                                           ELSE IF @ = "first" THEN "between" ELSE "after",
                                 !.ok = @ /\ outcome = "ok",
                                 !.pushed = @ \/ (cur.phase = "first" /\ remoteChanged),
                                 !.rewrote = @ \/ (cur.phase = "second" /\ wrote)]
                ELSE IF cur.phase # "none" /\ remoteChanged
                THEN [cur EXCEPT !.quiet = FALSE]
                ELSE cur]

FreeSlot(t, s) ==
    /\ tasks[t][s].op = "none"
    /\ \A s2 \in Slots : s2 < s => tasks[t][s2].op # "none"

\* initCounterSystem: the instance's initialize() is called once
Initialize(t) ==
    /\ ~sys[t].initializing
    /\ \E s \in Slots :
        /\ FreeSlot(t, s)
        /\ tasks' = [tasks EXCEPT ![t][s] = Task("initialize", "probe", <<>>, "", 0, 0, {})]
    /\ sys' = [sys EXCEPT ![t].initializing = TRUE]
    /\ UNCHANGED <<localStorage, sessionStorage, page_counters, ret, calls, returned,
                   enqueued, drained, changes>>
    /\ UNCHANGED click_counters
    /\ SyncTrack(t, 1, "other", "ok")
    /\ UNCHANGED <<secVars, adminVars>>

\* only a rejected probe leaves the engine in LocalOnly mode
ProbeFallbackOnThrow(outcome) == outcome = "throw"

\* initialize() lines 21-27 and 41: fallbackEnabled after the probe
ProbeFallback(outcome) == outcome # "ok"

\* initialize() after the probe read: lines 21-37, or the catch block 39-43
InitializeProbed(t, s, outcome) ==
    /\ tasks[t][s].pc = "probe"
    /\ LET task == tasks[t][s]
           sys1 == [sys[t] EXCEPT !.fallbackEnabled = ProbeFallback(outcome),
                                  !.initialized = TRUE]
           drain == outcome # "throw" /\ Len(sys1.pendingIncrements) > 0
       IN  /\ sys' = [sys EXCEPT ![t] = sys1]
           /\ tasks' = [tasks EXCEPT ![t][s] =
                          IF drain THEN Task("initialize", "drain", <<>>, "", 0, 1, {})
                          ELSE IdleTask]
    /\ UNCHANGED <<localStorage, sessionStorage, page_counters, ret, calls, returned,
                   enqueued, drained, changes>>
    /\ UNCHANGED click_counters
    /\ SyncTrack(t, s, "other", "ok")
    /\ UNCHANGED <<secVars, adminVars>>

\* the queue walked from its newest entry
PendingIncrementNewestFirst(pendingIncrements, idx) ==
    pendingIncrements[Len(pendingIncrements) + 1 - idx]

\* for (const increment of this.pendingIncrements): the idx-th increment of the walk
PendingIncrement(pendingIncrements, idx) == pendingIncrements[idx]

\* initialize() line 34: await this.incrementCounter(increment.counterId, increment.options)
InitializeDrain(t, s) ==
    /\ tasks[t][s].pc = "drain"
    /\ LET task == tasks[t][s]
           increment == PendingIncrement(sys[t].pendingIncrements, task.idx)
       IN  /\ CallIncrementCounter(t, s, [task EXCEPT !.counterId = increment.counterId,
                                                      !.options = increment.options])
           /\ drained' = [drained EXCEPT ![t] = Append(@, increment)]
           /\ CountChanges(t, increment.counterId)
    /\ UNCHANGED <<calls, enqueued>>
    /\ UNCHANGED click_counters
    /\ SyncTrack(t, s, "other", "ok")
    /\ UNCHANGED <<secVars, adminVars>>

\* a caller (page script) calls incrementCounter
IncrementCounter(t, s, counterId, options) ==
    /\ calls < MaxCalls
    /\ FreeSlot(t, s)
    /\ calls' = calls + 1
    /\ CallIncrementCounter(t, s, Task("incrementCounter", "call", counterId, options, 0, 0, {}))
    /\ enqueued' = IF sys[t].initialized THEN enqueued
                   ELSE [enqueued EXCEPT ![t] =
                           Append(@, [counterId |-> counterId, options |-> options])]
    /\ CountChanges(t, counterId)
    /\ UNCHANGED drained
    /\ UNCHANGED click_counters
    /\ SyncTrack(t, s, "other", "ok")
    /\ UNCHANGED <<secVars, adminVars>>

\* the count read is written back as it is
NewCountUnchanged(count) == count

\* incrementCounter line 81: newCount = data.count + 1
NewCount(count) == count + 1

\* incrementCounter after the remote select of lines 64-68
IncrementRead(t, s, outcome) ==
    /\ tasks[t][s].pc = "inc_read"
    /\ LET task == tasks[t][s]
       IN  IF outcome = "throw" THEN IncrementCatch(t, s, task)
           ELSE IF outcome = "error" \/ ~HasRow(page_counters, task.counterId)
           THEN Suspend(t, s, [task EXCEPT !.pc = "inc_insert", !.newCount = 1], page_counters)
           ELSE Suspend(t, s, [task EXCEPT !.pc = "inc_update",
                                           !.newCount = NewCount(page_counters[task.counterId])],
                        page_counters)
    /\ CountChanges(t, tasks[t][s].counterId)
    /\ UNCHANGED <<calls, enqueued, drained>>
    /\ UNCHANGED click_counters
    /\ SyncTrack(t, s, "other", "ok")
    /\ UNCHANGED <<secVars, adminVars>>

\* incrementCounter after the remote insert of lines 72-79
IncrementInserted(t, s, outcome) ==
    /\ tasks[t][s].pc = "inc_insert"
    /\ LET task == tasks[t][s]
           table == IF outcome = "ok" THEN RemoteInsert(page_counters, task.counterId, 1)
                    ELSE page_counters
       IN  IF outcome = "throw" THEN IncrementCatch(t, s, task)
           ELSE IncrementLocalPart(t, s, task, table, task.newCount)
    /\ CountChanges(t, tasks[t][s].counterId)
    /\ UNCHANGED <<calls, enqueued, drained>>
    /\ UNCHANGED click_counters
    /\ SyncTrack(t, s, "other", "ok")
    /\ UNCHANGED <<secVars, adminVars>>

\* incrementCounter after the remote update of lines 82-88
IncrementUpdated(t, s, outcome) ==
    /\ tasks[t][s].pc = "inc_update"
    /\ LET task == tasks[t][s]
           table == IF outcome = "ok"
                    THEN RemoteUpdate(page_counters, task.counterId, task.newCount)
                    ELSE page_counters
       IN  IF outcome = "throw" THEN IncrementCatch(t, s, task)
           ELSE IncrementLocalPart(t, s, task, table, task.newCount)
    /\ CountChanges(t, tasks[t][s].counterId)
    /\ UNCHANGED <<calls, enqueued, drained>>
    /\ UNCHANGED click_counters
    /\ SyncTrack(t, s, "other", "ok")
    /\ UNCHANGED <<secVars, adminVars>>

\* incrementCounter line 57, after getCounterValue's remote read
IncrementFlagRead(t, s, outcome) ==
    /\ tasks[t][s].pc = "flag_read"
    /\ GetCounterValueRead(t, s, tasks[t][s], "incrementCounter", outcome)
    /\ CountChanges(t, tasks[t][s].counterId)
    /\ UNCHANGED <<calls, enqueued, drained>>
    /\ UNCHANGED click_counters
    /\ SyncTrack(t, s, "other", "ok")
    /\ UNCHANGED <<secVars, adminVars>>

\* a caller calls getCounterValue
GetCounterValue(t, s, counterId) ==
    /\ calls < MaxCalls
    /\ FreeSlot(t, s)
    /\ calls' = calls + 1
    /\ CallGetCounterValue(t, s, Task("getCounterValue", "call", counterId, "", 0, 0, {}),
                           "getCounterValue", "get_read")
    /\ UNCHANGED <<enqueued, drained, changes>>
    /\ UNCHANGED click_counters
    /\ SyncTrack(t, s, "other", "ok")
    /\ UNCHANGED <<secVars, adminVars>>

\* getCounterValue after its remote read
GetCounterValueDone(t, s, outcome) ==
    /\ tasks[t][s].pc = "get_read"
    /\ GetCounterValueRead(t, s, tasks[t][s], "getCounterValue", outcome)
    /\ UNCHANGED <<calls, enqueued, drained, changes>>
    /\ UNCHANGED click_counters
    /\ SyncTrack(t, s, "other", "ok")
    /\ UNCHANGED <<secVars, adminVars>>

\* ---- click counters
ClickKey(buttonId) == <<localStoragePrefix, "click_">> \o buttonId

\* the local click mirror as getClickCounter and incrementClickCounter read it
ClickCount(ls, buttonId) == OrZero(parseInt(getItem(ls, ClickKey(buttonId))))

ClickHistoryCap == 50

\* incrementClickLocal(buttonId): the store it leaves
incrementClickLocal(ls, buttonId) ==
    setItem(ls, ClickKey(buttonId), Text(toString(ClickCount(ls, buttonId) + 1)))

\* incrementClickCounter lines 246-254: the click history, capped
saveClickHistory(ls, buttonId) ==
    LET historyKey == ClickKey(buttonId) \o <<"_history">>
        stored == getItem(ls, historyKey)
        history == IF stored.kind = "json" THEN stored.v ELSE <<>>
        pushed == Append(history, [timestamp |-> toISOString(now), buttonId |-> buttonId])
    IN  setItem(ls, historyKey, Json(SliceLast(pushed, ClickHistoryCap)))

\* incrementClickCounter lines 229-256: local increment, max, history, return
ClickLocalPart(t, s, task, newCount) ==
    LET ls1 == incrementClickLocal(localStorage, task.counterId)
        localCount == ClickCount(ls1, task.counterId)
        ls2 == saveClickHistory(ls1, task.counterId)
    IN  Complete(t, s, task, ls2, sessionStorage[t], page_counters, sys[t],
                 "incrementClickCounter", FALSE, Max(newCount, localCount))

\* incrementClickCounter's catch block: return this.incrementClickLocal(buttonId)
ClickCatch(t, s, task) ==
    LET ls1 == incrementClickLocal(localStorage, task.counterId)
    IN  Complete(t, s, task, ls1, sessionStorage[t], page_counters, sys[t],
                 "incrementClickCounter", FALSE, ClickCount(ls1, task.counterId))

\* a caller (click handler) calls incrementClickCounter
IncrementClickCounter(t, s, buttonId) ==
    /\ calls < MaxCalls
    /\ FreeSlot(t, s)
    /\ calls' = calls + 1
    /\ LET task == Task("incrementClickCounter", "call", buttonId, "", 0, 0, {})
       IN  IF ~sys[t].fallbackEnabled
           THEN Suspend(t, s, [task EXCEPT !.pc = "click_read"], page_counters)
           ELSE ClickLocalPart(t, s, task, 1)
    /\ UNCHANGED <<click_counters, enqueued, drained, changes>>
    /\ SyncTrack(t, s, "other", "ok")
    /\ UNCHANGED <<secVars, adminVars>>

\* incrementClickCounter after the remote select of lines 201-205
ClickRead(t, s, outcome) ==
    /\ tasks[t][s].pc = "click_read"
    /\ LET task == tasks[t][s]
       IN  IF outcome = "throw" THEN ClickCatch(t, s, task)
           ELSE IF outcome = "error" \/ ~HasRow(click_counters, task.counterId)
           THEN Suspend(t, s, [task EXCEPT !.pc = "click_insert", !.newCount = 1],
                        page_counters)
           ELSE Suspend(t, s, [task EXCEPT !.pc = "click_update",
                                           !.newCount = click_counters[task.counterId] + 1],
                        page_counters)
    /\ UNCHANGED <<click_counters, calls, enqueued, drained, changes>>
    /\ SyncTrack(t, s, "other", "ok")
    /\ UNCHANGED <<secVars, adminVars>>

\* incrementClickCounter after the remote insert of lines 208-216
ClickInserted(t, s, outcome) ==
    /\ tasks[t][s].pc = "click_insert"
    /\ LET task == tasks[t][s]
       IN  /\ IF outcome = "throw" THEN ClickCatch(t, s, task)
              ELSE ClickLocalPart(t, s, task, task.newCount)
           /\ click_counters' = IF outcome = "ok"
                                THEN RemoteInsert(click_counters, task.counterId, 1)
                                ELSE click_counters
    /\ UNCHANGED <<calls, enqueued, drained, changes>>
    /\ SyncTrack(t, s, "other", "ok")
    /\ UNCHANGED <<secVars, adminVars>>

\* incrementClickCounter after the remote update of lines 219-225
ClickUpdated(t, s, outcome) ==
    /\ tasks[t][s].pc = "click_update"
    /\ LET task == tasks[t][s]
       IN  /\ IF outcome = "throw" THEN ClickCatch(t, s, task)
              ELSE ClickLocalPart(t, s, task, task.newCount)
           /\ click_counters' = IF outcome = "ok"
                                THEN RemoteUpdate(click_counters, task.counterId, task.newCount)
                                ELSE click_counters
    /\ UNCHANGED <<calls, enqueued, drained, changes>>
    /\ SyncTrack(t, s, "other", "ok")
    /\ UNCHANGED <<secVars, adminVars>>

\* a caller calls getClickCounter
GetClickCounter(t, s, buttonId) ==
    /\ calls < MaxCalls
    /\ FreeSlot(t, s)
    /\ calls' = calls + 1
    /\ LET task == Task("getClickCounter", "call", buttonId, "", 0, 0, {})
       IN  IF ~sys[t].fallbackEnabled
           THEN Suspend(t, s, [task EXCEPT !.pc = "clickget_read"], page_counters)
           ELSE Complete(t, s, task, localStorage, sessionStorage[t], page_counters, sys[t],
                         "getClickCounter", FALSE, ClickCount(localStorage, buttonId))
    /\ UNCHANGED <<click_counters, enqueued, drained, changes>>
    /\ SyncTrack(t, s, "other", "ok")
    /\ UNCHANGED <<secVars, adminVars>>

\* getClickCounter after its remote read
GetClickCounterDone(t, s, outcome) ==
    /\ tasks[t][s].pc = "clickget_read"
    /\ LET task == tasks[t][s]
           localCount == ClickCount(localStorage, task.counterId)
           value == IF outcome = "ok" /\ HasRow(click_counters, task.counterId)
                    THEN Max(click_counters[task.counterId], localCount)
                    ELSE localCount
       IN  Complete(t, s, task, localStorage, sessionStorage[t], page_counters, sys[t],
                    "getClickCounter", FALSE, value)
    /\ UNCHANGED <<click_counters, calls, enqueued, drained, changes>>
    /\ SyncTrack(t, s, "other", "ok")
    /\ UNCHANGED <<secVars, adminVars>>

\* ---- syncWithDatabase
\* the sweep of syncWithDatabase with the click_ test left out
SyncSkipsHistoryOnly(key) ==
    includes(key, "_history") \/ includes(key, "_details")

\* line 330: keys the sweep passes over
SyncSkips(key) ==
    includes(key, "_history") \/ includes(key, "_details") \/ includes(key, "click_")

\* key.replace(this.localStoragePrefix, '')
StripPrefix(key) == Tail(key)

\* the for loop of lines 329-359 up to its next remote read, or to `return true`.
\* Object.keys gives the keys in an order the browser chooses.
SyncLoop(t, s, task, table) ==
    LET eligible == {k \in task.keys :
                        /\ ~SyncSkips(k)
                        /\ parseInt(getItem(localStorage, k)) # NaN}
    IN  IF eligible = {}
        THEN Complete(t, s, task, localStorage, sessionStorage[t], table, sys[t],
                      "syncWithDatabase", FALSE, 1)
        ELSE \E key \in eligible :
                Suspend(t, s, [task EXCEPT !.pc = "sync_read",
                                           !.counterId = StripPrefix(key),
                                           !.newCount = parseInt(getItem(localStorage, key)),
                                           !.keys = task.keys \ {key}],
                        table)

\* `>=` in the place of `>`
SyncPushesEqual(localCount, remoteCount) == localCount >= remoteCount

\* line 353: else if (localCount > data.count)
SyncPushes(localCount, remoteCount) == localCount > remoteCount

\* the mode test left out
SyncAlwaysRuns(sysT) == FALSE

\* line 322: if (this.fallbackEnabled) return false
SyncIsNoOp(sysT) == sysT.fallbackEnabled

\* a caller (load timer, visibilitychange handler) calls syncWithDatabase
SyncWithDatabase(t, s) ==
    /\ calls < MaxCalls
    /\ FreeSlot(t, s)
    /\ calls' = calls + 1
    /\ LET counterKeys == {k \in ObjectKeys(localStorage) : startsWith(k, localStoragePrefix)}
           task == Task("syncWithDatabase", "call", <<>>, "", 0, 0, counterKeys)
       IN  IF SyncIsNoOp(sys[t])
           THEN Complete(t, s, task, localStorage, sessionStorage[t], page_counters, sys[t],
                         "syncWithDatabase", FALSE, 0)
           ELSE SyncLoop(t, s, task, page_counters)
    /\ UNCHANGED <<enqueued, drained, changes>>
    /\ UNCHANGED click_counters
    /\ SyncTrack(t, s, "sync_start", "ok")
    /\ UNCHANGED <<secVars, adminVars>>

\* syncWithDatabase after the remote select of lines 339-343
SyncRead(t, s, outcome) ==
    /\ tasks[t][s].pc = "sync_read"
    /\ LET task == tasks[t][s]
       IN  IF outcome = "throw"
           THEN Complete(t, s, task, localStorage, sessionStorage[t], page_counters, sys[t],
                         "syncWithDatabase", FALSE, 0)
           ELSE IF outcome = "error" \/ ~HasRow(page_counters, task.counterId)
           THEN Suspend(t, s, [task EXCEPT !.pc = "sync_insert"], page_counters)
           ELSE IF SyncPushes(task.newCount, page_counters[task.counterId])
           THEN Suspend(t, s, [task EXCEPT !.pc = "sync_update"], page_counters)
           ELSE SyncLoop(t, s, task, page_counters)
    /\ UNCHANGED <<calls, enqueued, drained, changes>>
    /\ UNCHANGED click_counters
    /\ SyncTrack(t, s, "sync_step", outcome)
    /\ UNCHANGED <<secVars, adminVars>>

\* syncWithDatabase after the remote insert of lines 346-352
SyncInserted(t, s, outcome) ==
    /\ tasks[t][s].pc = "sync_insert"
    /\ LET task == tasks[t][s]
       IN  IF outcome = "throw"
           THEN Complete(t, s, task, localStorage, sessionStorage[t], page_counters, sys[t],
                         "syncWithDatabase", FALSE, 0)
           ELSE SyncLoop(t, s, task,
                         IF outcome = "ok"
                         THEN RemoteInsert(page_counters, task.counterId, task.newCount)
                         ELSE page_counters)
    /\ UNCHANGED <<calls, enqueued, drained, changes>>
    /\ UNCHANGED click_counters
    /\ SyncTrack(t, s, "sync_step", outcome)
    /\ UNCHANGED <<secVars, adminVars>>

\* syncWithDatabase after the remote update of lines 354-357
SyncUpdated(t, s, outcome) ==
    /\ tasks[t][s].pc = "sync_update"
    /\ LET task == tasks[t][s]
       IN  IF outcome = "throw"
           THEN Complete(t, s, task, localStorage, sessionStorage[t], page_counters, sys[t],
                         "syncWithDatabase", FALSE, 0)
           ELSE SyncLoop(t, s, task,
                         IF outcome = "ok"
                         THEN RemoteUpdate(page_counters, task.counterId, task.newCount)
                         ELSE page_counters)
    /\ UNCHANGED <<calls, enqueued, drained, changes>>
    /\ UNCHANGED click_counters
    /\ SyncTrack(t, s, "sync_step", outcome)
    /\ UNCHANGED <<secVars, adminVars>>

\* ------------------------------------------------------------ SecuritySystem
sessionDuration == 24 * 60 * 60 * 1000

\* this.sessionDuration * 0.8
RenewalWindow == (sessionDuration * 8) \div 10

csrfLifetime == 3600000

MsPerSecond == 1000

MaxTicks == 3          \* times the clock is advanced
MaxRateTicks == 2      \* times the clock is advanced between rate-limited calls
MaxWindowTicks == 3    \* times the clock is advanced while windows are followed
MaxSessionTicks == 2   \* times the clock is advanced while a session is followed
MaxFormTicks == 2      \* times the clock is advanced while forms are followed
MaxRandom == 2         \* random strings generated
MaxLimit == 2          \* largest limit passed to checkRateLimit

RateActions == {"login"}
FormIds == {"contact", "signup"}
Users == {<<"alice">>}
Limits == 1..MaxLimit
Intervals == {1000, 2000}
RateSteps == {1, 1000}
SessionSteps == {1, csrfLifetime, sessionDuration}
RenewalSteps == {1, RenewalWindow - 1, sessionDuration}

\* Math.floor in the place of Math.ceil
FloorDiv(a, b) == a \div b

\* Math.ceil(a / b) for b > 0
Ceil(a, b) == -((-a) \div b)

\* generateRandomString(length): the n-th string the random source yields
generateRandomString(length, n) ==
    <<"random">> \o toString(length) \o <<"#">> \o toString(n)

RateKey(action) == <<"rate_limit_", action>>

Result(fn, t, ok, arg, value, remaining, retryAfter) ==
    [fn |-> fn, tab |-> t, ok |-> ok, arg |-> arg, value |-> value,
     remaining |-> remaining, retryAfter |-> retryAfter, removed |-> [durable |-> {}, volatile |-> {}]]

\* the keys a teardown takes out of the durable store and of tab t's volatile store
Removed(ls, ls2, ss, ss2) ==
    [durable |-> ObjectKeys(ls) \ ObjectKeys(ls2),
     volatile |-> ObjectKeys(ss) \ ObjectKeys(ss2)]

\* `>` in the place of `>=`
RateDeniedOffByOne(data, limit) == data.count > limit

\* line 824: if (data.count >= limit)
RateDenied(data, limit) == data.count >= limit

NoResult == Result("none", "", FALSE, <<>>, <<>>, 0, 0)

\* ---- rate limiting
\* the last n entries of a sequence
KeepLast(seq, n) ==
    IF Len(seq) > n THEN SubSeq(seq, Len(seq) - n + 1, Len(seq)) ELSE seq

\* the window ends at resetTime itself
WindowPassedAtReset(time, resetTime) == time >= resetTime

\* line 818: if (now > data.resetTime)
WindowPassed(time, resetTime) == time > resetTime

\* JSON.parse(sessionStorage.getItem(key) || '{}') and lines 810-821
RateBucket(ss, action, interval, time) ==
    LET stored == getItem(ss, RateKey(action))
        absent == stored.kind # "json"
        data1 == IF absent \/ stored.v.count = 0 \/ stored.v.resetTime = 0
                 THEN [count |-> 0, resetTime |-> time + interval]
                 ELSE stored.v
    IN  IF WindowPassed(time, data1.resetTime)
        THEN [count |-> 0, resetTime |-> time + interval]
        ELSE data1

\* a new window starts: the bucket is (re)initialised by this call
RateResets(ss, action, time) ==
    LET stored == getItem(ss, RateKey(action))
    IN  \/ stored.kind # "json"
        \/ stored.v.count = 0
        \/ stored.v.resetTime = 0
        \/ WindowPassed(time, stored.v.resetTime)

checkRateLimit(t, action) ==
    LET limit == rateArgs[action].limit
        interval == rateArgs[action].interval
        ss == sessionStorage[t]
        data == RateBucket(ss, action, interval, now)
        denied == RateDenied(data, limit)
        count == data.count + 1
        res == IF denied
               THEN Result("checkRateLimit", t, FALSE, <<action>>, <<>>, 0,
                           Ceil(data.resetTime - now, MsPerSecond))
               ELSE Result("checkRateLimit", t, TRUE, <<action>>, <<>>, limit - count, 0)
        fresh == getItem(ss, RateKey(action)).kind # "json"
        before == IF fresh THEN 0 ELSE rateCalls[t][action]
        inWindow == IF RateResets(ss, action, now) THEN 0 ELSE windowAllowed[t][action]
    IN  /\ sessionStorage' =
              IF denied THEN sessionStorage
              ELSE [sessionStorage EXCEPT ![t] =
                      setItem(ss, RateKey(action), Json([data EXCEPT !.count = count]))]
        /\ result' = res
        /\ rateCalls' = [rateCalls EXCEPT ![t][action] =
                            IF before <= limit + 1 THEN before + 1 ELSE before]
        /\ rateFirst' = [rateFirst EXCEPT ![t][action] = IF fresh THEN now ELSE @]
        /\ windowAllowed' = [windowAllowed EXCEPT ![t][action] =
                                inWindow + (IF denied THEN 0 ELSE 1)]
        /\ allowedAt' = [allowedAt EXCEPT ![t][action] =
                            LET earlier == IF fresh THEN <<>> ELSE @
                            IN  IF denied THEN earlier
                                ELSE KeepLast(Append(earlier, [at |-> now,
                                                               resetTime |-> data.resetTime]),
                                              2 * limit + 1)]
        /\ deniedUntil' = [deniedUntil EXCEPT ![t][action] =
                              IF denied THEN data.resetTime ELSE @]
        /\ UNCHANGED <<localStorage, now, random, rateArgs, creator, teardown, ticks>>
        /\ UNCHANGED <<counterVars, adminVars, forms>>

\* ---- CSRF token
generateCSRFToken(t) ==
    /\ random < MaxRandom
    /\ LET token == generateRandomString(32, random + 1)
           expires == now + csrfLifetime
       IN  /\ localStorage' = setItem(setItem(localStorage, <<"csrf_token">>, Text(token)),
                                      <<"csrf_token_expires">>, Text(toString(expires)))
           /\ sessionStorage' = [sessionStorage EXCEPT ![t] =
                                   setItem(@, <<"csrf_token">>, Text(token))]
           /\ result' = Result("generateCSRFToken", t, TRUE, <<>>, token, 0, 0)
    /\ random' = random + 1
    /\ UNCHANGED <<now, rateArgs, rateCalls, rateFirst, windowAllowed, allowedAt, deniedUntil, creator, teardown, ticks>>
    /\ UNCHANGED <<counterVars, adminVars, forms>>

\* the value verifyCSRFToken(token) returns in tab t
CSRFTokenAccepted(ls, ss, time, token) ==
    LET storedToken == getItem(ls, <<"csrf_token">>)
        storedSessionToken == getItem(ss, <<"csrf_token">>)
        storedExpires == getItem(ls, <<"csrf_token_expires">>)
        expires == parseInt(IF Truthy(storedExpires) THEN storedExpires ELSE Text(<<"0">>))
    IN  IF ~Truthy(storedToken) \/ expires = NaN \/ expires = 0 \/ time > expires
        THEN FALSE
        ELSE token = storedToken \/ token = storedSessionToken

verifyCSRFToken(t, token) ==
    /\ result' = Result("verifyCSRFToken", t,
                        CSRFTokenAccepted(localStorage, sessionStorage[t], now, token),
                        token, <<>>, 0, 0)
    /\ UNCHANGED <<localStorage, sessionStorage, now, random, rateArgs, rateCalls, rateFirst,
                   windowAllowed, allowedAt, deniedUntil, creator, teardown, ticks>>
    /\ UNCHANGED <<counterVars, adminVars, forms>>

\* ---- forms
\* a form secureForm has not been called for
NotSecured == [token |-> null, at |-> 0]

\* 'form_submit_' + formId
FormAction(formId) ==
    IF formId = "contact" THEN "form_submit_contact" ELSE "form_submit_signup"

FormSubmitLimit == 5

FormSubmitInterval == 60000

\* secureForm(formId) for a form of the page: the token is generated and
\* stored, put into the hidden field and captured by the submit listener
secureForm(t, formId) ==
    /\ forms[t][formId] = NotSecured
    /\ random < MaxRandom
    /\ LET token == generateRandomString(32, random + 1)
           expires == now + csrfLifetime
       IN  /\ localStorage' = setItem(setItem(localStorage, <<"csrf_token">>, Text(token)),
                                      <<"csrf_token_expires">>, Text(toString(expires)))
           /\ sessionStorage' = [sessionStorage EXCEPT ![t] =
                                   setItem(@, <<"csrf_token">>, Text(token))]
           /\ result' = Result("secureForm", t, TRUE, <<formId>>, token, 0, 0)
           /\ forms' = [forms EXCEPT ![t][formId] = [token |-> Text(token), at |-> now]]
    /\ random' = random + 1
    /\ UNCHANGED <<now, rateArgs, rateCalls, rateFirst, windowAllowed, allowedAt, deniedUntil, creator,
                   teardown, ticks>>
    /\ UNCHANGED <<counterVars, adminVars>>

\* the submit listener of lines 1009-1024: value "csrf" when the CSRF check
\* prevents the submission, "rate" when the rate limit does, "sent" otherwise
SubmitForm(t, formId) ==
    /\ forms[t][formId] # NotSecured
    /\ LET ss == sessionStorage[t]
           action == FormAction(formId)
           data == RateBucket(ss, action, FormSubmitInterval, now)
           denied == RateDenied(data, FormSubmitLimit)
       IN  IF ~CSRFTokenAccepted(localStorage, ss, now, forms[t][formId].token)
           THEN /\ result' = Result("submit", t, FALSE, <<formId>>, <<"csrf">>, 0, 0)
                /\ UNCHANGED sessionStorage
           ELSE IF denied
           THEN /\ result' = Result("submit", t, FALSE, <<formId>>, <<"rate">>, 0,
                                    Ceil(data.resetTime - now, MsPerSecond))
                /\ UNCHANGED sessionStorage
           ELSE /\ result' = Result("submit", t, TRUE, <<formId>>, <<"sent">>,
                                    FormSubmitLimit - (data.count + 1), 0)
                /\ sessionStorage' = [sessionStorage EXCEPT ![t] =
                        setItem(ss, RateKey(action), Json([data EXCEPT !.count = @ + 1]))]
    /\ UNCHANGED <<localStorage, now, random, rateArgs, rateCalls, rateFirst, windowAllowed,
                   allowedAt, deniedUntil, creator, teardown, ticks, forms>>
    /\ UNCHANGED <<counterVars, adminVars>>

\* ---- session
HasSession(ls) == Truthy(getItem(ls, <<"user_session">>))

StoredSession(ls) == getItem(ls, <<"user_session">>).v

\* the 80% threshold measured from lastActivity
updateSessionActivityFromLastActivity(ls, time) ==
    IF ~HasSession(ls) THEN ls
    ELSE LET session == StoredSession(ls)
             expires == IF time - session.lastActivity < RenewalWindow
                        THEN time + sessionDuration
                        ELSE session.expires
         IN  setItem(ls, <<"user_session">>,
                     Json([session EXCEPT !.lastActivity = time, !.expires = expires]))

\* updateSessionActivity(): the durable store it leaves
updateSessionActivity(ls, time) ==
    IF ~HasSession(ls) THEN ls
    ELSE LET session == StoredSession(ls)
             expires == IF time - session.created < RenewalWindow
                        THEN time + sessionDuration
                        ELSE session.expires
         IN  setItem(ls, <<"user_session">>,
                     Json([session EXCEPT !.lastActivity = time, !.expires = expires]))

\* the session record left behind
DestroyedLocalKeepsRecord(ls) ==
    removeItem(removeItem(ls, <<"csrf_token">>), <<"csrf_token_expires">>)

\* destroySession(): what it leaves of the durable store
DestroyedLocal(ls) ==
    removeItem(removeItem(removeItem(ls, <<"user_session">>), <<"csrf_token">>),
               <<"csrf_token_expires">>)

\* sessionStorage.clear() in the place of the selective sweep
DestroyedSessionCleared(ss) == EmptyStore

\* destroySession(): what it leaves of the tab's volatile store
DestroyedSession(ss) ==
    LET ss1 == removeItem(removeItem(ss, <<"session_id">>), <<"csrf_token">>)
        swept == {k \in ObjectKeys(ss1) :
                    startsWith(k, "rate_limit_") \/ startsWith(k, "captcha_")}
    IN  [k \in ObjectKeys(ss1) \ swept |-> ss1[k]]

\* the statements of createSession.  Its `await this.getClientIP()` (line 896)
\* stands in a method that is not declared async; the method is taken as the
\* synchronous sequence of its statements, and the ip field is left out.
createSession(t, userData) ==
    /\ random < MaxRandom
    /\ LET sessionId == generateRandomString(64, random + 1)
           sessionData == [id |-> sessionId, user |-> userData, created |-> now,
                           expires |-> now + sessionDuration, lastActivity |-> 0]
           ls1 == setItem(localStorage, <<"user_session">>, Json(sessionData))
       IN  /\ localStorage' = updateSessionActivity(ls1, now)
           /\ sessionStorage' = [sessionStorage EXCEPT ![t] =
                                   setItem(@, <<"session_id">>, Text(sessionId))]
           /\ result' = Result("createSession", t, TRUE, userData, sessionId, 0, 0)
    /\ random' = random + 1
    /\ creator' = t
    /\ teardown' = "none"
    /\ UNCHANGED <<now, rateArgs, rateCalls, rateFirst, windowAllowed, allowedAt, deniedUntil, ticks>>
    /\ UNCHANGED <<counterVars, adminVars, forms>>

\* the wrong field compared
SessionExpiredSinceCreation(session, time) == time > session.created

SessionExpired(session, time) == time > session.expires

\* an absent session_id let through
SessionIdMismatchIfPresent(ss, session) ==
    /\ Truthy(getItem(ss, <<"session_id">>))
    /\ getItem(ss, <<"session_id">>) # Text(session.id)

SessionIdMismatch(ss, session) == getItem(ss, <<"session_id">>) # Text(session.id)

validateSession(t) ==
    /\ IF ~HasSession(localStorage)
       THEN /\ result' = Result("validateSession", t, FALSE, <<>>, <<>>, 0, 0)
            /\ UNCHANGED <<localStorage, sessionStorage, creator, teardown>>
       ELSE LET session == StoredSession(localStorage)
            IN  IF SessionExpired(session, now) \/ SessionIdMismatch(sessionStorage[t], session)
                THEN /\ localStorage' = DestroyedLocal(localStorage)
                     /\ sessionStorage' = [sessionStorage EXCEPT ![t] = DestroyedSession(@)]
                     /\ result' = [Result("validateSession", t, FALSE, <<>>, <<>>, 0, 0)
                                    EXCEPT !.removed =
                                        Removed(localStorage, localStorage',
                                                sessionStorage[t], sessionStorage'[t])]
                     /\ creator' = ""
                     /\ teardown' = IF SessionExpired(session, now) THEN "expired"
                                    ELSE "mismatch"
                ELSE /\ localStorage' = updateSessionActivity(localStorage, now)
                     /\ result' = Result("validateSession", t, TRUE, <<>>, session.user, 0, 0)
                     /\ UNCHANGED <<sessionStorage, creator, teardown>>
    /\ UNCHANGED <<now, random, rateArgs, rateCalls, rateFirst, windowAllowed, allowedAt, deniedUntil, ticks>>
    /\ UNCHANGED <<counterVars, adminVars, forms>>

destroySession(t) ==
    /\ localStorage' = DestroyedLocal(localStorage)
    /\ sessionStorage' = [sessionStorage EXCEPT ![t] = DestroyedSession(@)]
    /\ result' = [Result("destroySession", t, TRUE, <<>>, <<>>, 0, 0)
                   EXCEPT !.removed = Removed(localStorage, localStorage',
                                              sessionStorage[t], sessionStorage'[t])]
    /\ creator' = ""
    /\ UNCHANGED <<now, random, rateArgs, rateCalls, rateFirst, windowAllowed, allowedAt, deniedUntil, teardown, ticks>>
    /\ UNCHANGED <<counterVars, adminVars, forms>>

\* createCaptcha(): lines 736-742, what it stores
createCaptcha(t) ==
    /\ sessionStorage' = [sessionStorage EXCEPT ![t] =
          setItem(setItem(setItem(@, <<"captcha_", "hash">>, Text(<<"hash">>)),
                          <<"captcha_", "text">>, Text(<<"text">>)),
                  <<"captcha_", "time">>, Text(toString(now)))]
    /\ result' = Result("createCaptcha", t, TRUE, <<>>, <<>>, 0, 0)
    /\ UNCHANGED <<localStorage, now, random, rateArgs, rateCalls, rateFirst, windowAllowed, allowedAt, deniedUntil,
                   creator, teardown, ticks>>
    /\ UNCHANGED <<counterVars, adminVars, forms>>

\* time passes
Tick(step) ==
    /\ ticks < MaxTicks
    /\ ticks' = ticks + 1
    /\ now' = now + step
    /\ UNCHANGED <<localStorage, sessionStorage, random, result, rateArgs, rateCalls, rateFirst,
                   windowAllowed, allowedAt, deniedUntil, creator, teardown>>
    /\ UNCHANGED <<counterVars, adminVars, forms>>

\* ----------------------------------------------------------- AdminFunctions
MaxParticipants == 3   \* largest number of participants of the giveaway
MaxWinnersCount == 4   \* largest winners_count of the giveaway
MaxRandomWord == 3     \* largest word getRandomValues delivers (the code: a Uint32)
MaxFinishWinners == 2       \* largest winners_count of a giveaway that is finished
MaxFinishParticipants == 2  \* largest number of participants of that giveaway

UserIds == 1..MaxParticipants
RandomWords == 0..MaxRandomWord

Min(a, b) == IF a <= b THEN a ELSE b

\* cryptoRandom() * length, floored: the word is divided by the size of its range
randomIndex(word, length) == (word * length) \div (MaxRandomWord + 1)

spliceNothing(array, index) == array

\* array.splice(index, 1), index counted from 0
splice(array, index) ==
    [j \in 1..(Len(array) - 1) |-> IF j <= index THEN array[j] ELSE array[j + 1]]

\* participants.find(p => p.user_id === winnerId)
find(rows, winnerId) ==
    LET j == CHOOSE j \in 1..Len(rows) :
                 /\ rows[j].user_id = winnerId
                 /\ \A h \in 1..(j - 1) : rows[h].user_id /= winnerId
    IN  rows[j]

\* who calls finishGiveaway: the timer of scheduleGiveawayCheck, the admin
Callers == {"timer", "manual"}

\* a caller that has not called finishGiveaway
NotFinishing ==
    [pc |-> "idle", winnersResult |-> [returned |-> FALSE, success |-> FALSE, winners |-> <<>>],
     persisted |-> 0, returned |-> FALSE, success |-> FALSE]

\* ids of the rows of the users table; NoRow stands for a deleted row
AccountIds == 1..4
NoRow == "none"

\* the table before any deletion: a superadmin, two admins and a user
UsersAtStart == [u \in AccountIds |-> IF u = 1 THEN "superadmin" ELSE IF u <= 3 THEN "admin" ELSE "user"]

\* the users whose admin panel is open; currentUser is the constructor's
\* argument (lines 4-6)
AdminIds == {1, 2}
currentUser(a) == [id |-> a, role |-> UsersAtStart[a]]

\* an admin panel that has not called deleteUser
NotDeleting ==
    [pc |-> "idle", userId |-> 0, userData |-> null, returned |-> FALSE, success |-> FALSE]

NoSelection ==
    [pc |-> "idle", winners_count |-> 0, participants |-> <<>>, participantIds |-> <<>>,
     winnersCount |-> 0, winners |-> <<>>, i |-> 0, saving |-> 0]

NotSelected == [returned |-> FALSE, success |-> FALSE, winners |-> <<>>]

Selected(success, winners) == [returned |-> TRUE, success |-> success, winners |-> winners]

\* the rows of n participants, with distinct user ids
Participants(n) == [j \in 1..n |-> [user_id |-> n + 1 - j, username |-> <<"user", n + 1 - j>>]]

AdminAtRest ==
    /\ giveaways = [winners_count |-> 0, is_finished |-> FALSE]
    /\ giveaway_participants = <<>>
    /\ giveaway_winners = {}
    /\ selection = NoSelection
    /\ selected = NotSelected
    /\ inserts = 0
    /\ finish = [c \in Callers |-> NotFinishing]
    /\ users = UsersAtStart
    /\ deletion = [a \in AdminIds |-> NotDeleting]

\* the catch block of selectWinners
SelectWinnersFailed ==
    /\ selection' = NoSelection
    /\ selected' = Selected(FALSE, <<>>)
    /\ UNCHANGED <<giveaway_winners, inserts>>

AdminStep ==
    UNCHANGED <<localStorage, sessionStorage, counterVars, secVars,
                giveaways, giveaway_participants, finish, users, deletion>>

\* selectWinners(giveawayId), up to the read of the giveaway
SelectWinners ==
    /\ selection.pc = "idle"
    /\ selection' = [NoSelection EXCEPT !.pc = "giveaway"]
    /\ inserts' = 0
    /\ UNCHANGED <<giveaway_winners, selected>>
    /\ AdminStep

\* the giveaway row arrives; the read of the participants starts
SelectWinnersGiveaway(outcome) ==
    /\ selection.pc = "giveaway"
    /\ IF outcome = "ok"
       THEN /\ selection' = [selection EXCEPT !.pc = "participants",
                                              !.winners_count = giveaways.winners_count]
            /\ UNCHANGED <<giveaway_winners, inserts, selected>>
       ELSE SelectWinnersFailed
    /\ AdminStep

\* the participants arrive: early return when there are none, otherwise the
\* draw is prepared
SelectWinnersParticipants(outcome) ==
    /\ selection.pc = "participants"
    /\ IF outcome /= "ok"
       THEN SelectWinnersFailed
       ELSE IF Len(giveaway_participants) = 0
       THEN /\ selection' = NoSelection
            /\ selected' = Selected(TRUE, <<>>)
            /\ UNCHANGED <<giveaway_winners, inserts>>
       ELSE /\ selection' =
                [selection EXCEPT
                    !.pc = "draw",
                    !.participants = giveaway_participants,
                    !.participantIds =
                        [j \in 1..Len(giveaway_participants) |-> giveaway_participants[j].user_id],
                    !.winnersCount = Min(selection.winners_count, Len(giveaway_participants)),
                    !.winners = <<>>,
                    !.i = 0]
            /\ UNCHANGED <<giveaway_winners, inserts, selected>>
    /\ AdminStep

\* one iteration of the drawing loop
SelectWinnersDraw(word) ==
    /\ selection.pc = "draw"
    /\ selection.i < selection.winnersCount
    /\ LET index == randomIndex(word, Len(selection.participantIds))
           winnerId == selection.participantIds[index + 1]
           winnerParticipant == find(selection.participants, winnerId)
       IN  selection' =
               [selection EXCEPT
                   !.winners = Append(@, [user_id |-> winnerId,
                                           username |-> winnerParticipant.username]),
                   !.participantIds = splice(@, index),
                   !.i = @ + 1]
    /\ UNCHANGED <<giveaway_winners, inserts, selected>>
    /\ AdminStep

\* the drawing loop ends; the saving loop starts
SelectWinnersDrawn ==
    /\ selection.pc = "draw"
    /\ selection.i >= selection.winnersCount
    /\ selection' = [selection EXCEPT !.pc = "save", !.saving = 1]
    /\ UNCHANGED <<giveaway_winners, inserts, selected>>
    /\ AdminStep

\* one iteration of the saving loop: an error result is logged, a rejected
\* call ends in the catch block
SelectWinnersSave(outcome) ==
    /\ selection.pc = "save"
    /\ selection.saving <= Len(selection.winners)
    /\ CASE outcome = "ok" ->
              /\ giveaway_winners' =
                     giveaway_winners \cup {selection.winners[selection.saving].user_id}
              /\ inserts' = inserts + 1
              /\ selection' = [selection EXCEPT !.saving = @ + 1]
              /\ UNCHANGED selected
         [] outcome = "error" ->
              /\ selection' = [selection EXCEPT !.saving = @ + 1]
              /\ UNCHANGED <<giveaway_winners, inserts, selected>>
         [] OTHER -> SelectWinnersFailed
    /\ AdminStep

\* return { success: true, winners }
SelectWinnersReturn ==
    /\ selection.pc = "save"
    /\ selection.saving > Len(selection.winners)
    /\ selection' = NoSelection
    /\ selected' = Selected(TRUE, selection.winners)
    /\ UNCHANGED <<giveaway_winners, inserts>>
    /\ AdminStep

\* ---- deleteUser
DeleteStep ==
    UNCHANGED <<localStorage, sessionStorage, counterVars, secVars,
                giveaways, giveaway_participants, giveaway_winners, selection, selected,
                inserts, finish>>

\* deleteUser returns { success } to admin a
DeleteReturned(a, success) ==
    deletion' = [deletion EXCEPT ![a].pc = "done", ![a].returned = TRUE, ![a].success = success]

\* admin a calls deleteUser(userId): the self check of line 363, then the
\* read of the row's username and role starts
deleteUser(a, userId) ==
    /\ deletion[a].pc = "idle"
    /\ IF currentUser(a).id = userId
       THEN deletion' = [deletion EXCEPT ![a].pc = "done", ![a].userId = userId,
                                         ![a].returned = TRUE, ![a].success = FALSE]
       ELSE deletion' = [deletion EXCEPT ![a].pc = "lookup", ![a].userId = userId]
    /\ UNCHANGED users
    /\ DeleteStep

\* the read returns (lines 368-372): data is the row when it succeeded and
\* found one, null otherwise; its error is not looked at.  Then the guard of
\* line 375, and the delete starts
DeleteUserLookedUp(a, outcome) ==
    /\ deletion[a].pc = "lookup"
    /\ LET row == users[deletion[a].userId]
           userData == IF outcome = "ok" /\ row # NoRow THEN [role |-> row] ELSE null
       IN  IF outcome = "throw"
           THEN DeleteReturned(a, FALSE)
           ELSE IF userData # null /\ userData.role = "admin"
                   /\ currentUser(a).role # "superadmin"
           THEN DeleteReturned(a, FALSE)
           ELSE deletion' = [deletion EXCEPT ![a].pc = "delete", ![a].userData = userData]
    /\ UNCHANGED users
    /\ DeleteStep

\* the delete returns (lines 379-384)
DeleteUserDeleted(a, outcome) ==
    /\ deletion[a].pc = "delete"
    /\ IF outcome = "ok"
       THEN /\ users' = [users EXCEPT ![deletion[a].userId] = NoRow]
            /\ deletion' = [deletion EXCEPT ![a].pc = "log"]
       ELSE /\ DeleteReturned(a, FALSE)
            /\ UNCHANGED users
    /\ DeleteStep

\* logAdminAction, which catches its own errors, has returned: return
\* { success: true }
DeleteUserReturn(a) ==
    /\ deletion[a].pc = "log"
    /\ DeleteReturned(a, TRUE)
    /\ UNCHANGED users
    /\ DeleteStep

\* ---- finishGiveaway
FinishStep ==
    UNCHANGED <<localStorage, sessionStorage, counterVars, secVars, giveaway_participants,
                users, deletion>>

\* finishGiveaway returns { success } to caller c
FinishReturned(c, success) ==
    finish' = [finish EXCEPT ![c].pc = "done", ![c].returned = TRUE, ![c].success = success]

\* caller c calls finishGiveaway(giveawayId): the read of the giveaway starts
FinishGiveaway(c) ==
    /\ finish[c].pc = "idle"
    /\ finish' = [finish EXCEPT ![c].pc = "read"]
    /\ UNCHANGED <<giveaways, giveaway_winners, inserts, selection, selected>>
    /\ FinishStep

\* the giveaway row arrives (lines 170-180) and selectWinners is called
\* (line 183); one selectWinners call is followed at a time
FinishGiveawayRead(c, outcome) ==
    /\ finish[c].pc = "read"
    /\ IF outcome /= "ok"
       THEN /\ FinishReturned(c, FALSE)
            /\ UNCHANGED <<selection, selected, inserts>>
       ELSE IF giveaways.is_finished
       THEN /\ FinishReturned(c, TRUE)
            /\ UNCHANGED <<selection, selected, inserts>>
       ELSE /\ selection.pc = "idle"
            /\ \A d \in Callers : finish[d].pc /= "selecting"
            /\ finish' = [finish EXCEPT ![c].pc = "selecting"]
            /\ selection' = [NoSelection EXCEPT !.pc = "giveaway"]
            /\ selected' = NotSelected
            /\ inserts' = 0
    /\ UNCHANGED <<giveaways, giveaway_winners>>
    /\ FinishStep

\* selectWinners has returned winnersResult; the update of lines 186-192 starts
FinishGiveawaySelected(c) ==
    /\ finish[c].pc = "selecting"
    /\ selection.pc = "idle"
    /\ selected.returned
    /\ finish' = [finish EXCEPT ![c].pc = "update",
                                ![c].winnersResult = selected,
                                ![c].persisted = inserts]
    /\ UNCHANGED <<giveaways, giveaway_winners, inserts, selection, selected>>
    /\ FinishStep

\* the update of is_finished returns; line 198 reads winnersResult.winners.length,
\* which throws when selectWinners returned { success: false, error }
FinishGiveawayUpdated(c, outcome) ==
    /\ finish[c].pc = "update"
    /\ IF outcome /= "ok"
       THEN /\ FinishReturned(c, FALSE)
            /\ UNCHANGED giveaways
       ELSE /\ giveaways' = [giveaways EXCEPT !.is_finished = TRUE]
            /\ IF finish[c].winnersResult.success
               THEN finish' = [finish EXCEPT ![c].pc = "log"]
               ELSE FinishReturned(c, FALSE)
    /\ UNCHANGED <<giveaway_winners, inserts, selection, selected>>
    /\ FinishStep

\* logAdminAction (which catches its own errors) and notifyWinners have
\* returned: return { success: true, message, winners }
FinishGiveawayReturn(c) ==
    /\ finish[c].pc = "log"
    /\ FinishReturned(c, TRUE)
    /\ UNCHANGED <<giveaways, giveaway_winners, inserts, selection, selected>>
    /\ FinishStep

\* the SecuritySystem's variables while only the counters are looked at
SecurityAtRest ==
    /\ now = 0
    /\ ticks = 0
    /\ random = 0
    /\ result = NoResult
    /\ rateArgs = [a \in RateActions |-> [limit |-> 1, interval |-> 1000]]
    /\ rateCalls = [t \in Tabs |-> [a \in RateActions |-> 0]]
    /\ rateFirst = [t \in Tabs |-> [a \in RateActions |-> 0]]
    /\ windowAllowed = [t \in Tabs |-> [a \in RateActions |-> 0]]
    /\ allowedAt = [t \in Tabs |-> [a \in RateActions |-> <<>>]]
    /\ deniedUntil = [t \in Tabs |-> [a \in RateActions |-> 0]]
    /\ creator = ""
    /\ teardown = "none"
    /\ forms = [t \in Tabs |-> [f \in FormIds |-> NotSecured]]

\* ---- the counter specification
RemoteTables ==
    UNION {[ids -> 1..InitRemoteMax] : ids \in SUBSET CounterIds}

Init ==
    /\ localStorage = EmptyStore
    /\ sessionStorage = [t \in Tabs |-> EmptyStore]
    /\ page_counters \in RemoteTables
    /\ sys = [t \in Tabs |-> NewCounterSystem]
    /\ tasks = [t \in Tabs |-> [s \in Slots |-> IdleTask]]
    /\ ret = NoReturn
    /\ calls = 0
    /\ returned = [t \in Tabs |-> [c \in CounterIds |-> 0]]
    /\ enqueued = [t \in Tabs |-> <<>>]
    /\ drained = [t \in Tabs |-> <<>>]
    /\ changes = [t \in Tabs |-> [c \in CounterIds |-> [local |-> 0, remote |-> 0]]]
    /\ click_counters = [k \in {} |-> 0]
    /\ succ = [t \in Tabs |-> NoSucc]
    /\ SecurityAtRest
    /\ AdminAtRest

Next ==
    \/ \E t \in Tabs : Initialize(t)
    \/ \E t \in Tabs, s \in Slots, o \in ReadOutcomes : InitializeProbed(t, s, o)
    \/ \E t \in Tabs, s \in Slots : InitializeDrain(t, s)
    \/ \E t \in Tabs, s \in Slots, c \in CounterIds, o \in OptionSet : IncrementCounter(t, s, c, o)
    \/ \E t \in Tabs, s \in Slots, o \in ReadOutcomes : IncrementRead(t, s, o)
    \/ \E t \in Tabs, s \in Slots, o \in WriteOutcomes : IncrementInserted(t, s, o)
    \/ \E t \in Tabs, s \in Slots, o \in WriteOutcomes : IncrementUpdated(t, s, o)
    \/ \E t \in Tabs, s \in Slots, o \in ReadOutcomes : IncrementFlagRead(t, s, o)
    \/ \E t \in Tabs, s \in Slots, c \in CounterIds : GetCounterValue(t, s, c)
    \/ \E t \in Tabs, s \in Slots, o \in ReadOutcomes : GetCounterValueDone(t, s, o)
    \/ \E t \in Tabs, s \in Slots : SyncWithDatabase(t, s)
    \/ \E t \in Tabs, s \in Slots, o \in ReadOutcomes : SyncRead(t, s, o)
    \/ \E t \in Tabs, s \in Slots, o \in WriteOutcomes : SyncInserted(t, s, o)
    \/ \E t \in Tabs, s \in Slots, o \in WriteOutcomes : SyncUpdated(t, s, o)

Spec == Init /\ [][Next]_vars

\* initialization and page visits only
NextIncrement ==
    \/ \E t \in Tabs : Initialize(t)
    \/ \E t \in Tabs, s \in Slots, o \in ReadOutcomes : InitializeProbed(t, s, o)
    \/ \E t \in Tabs, s \in Slots : InitializeDrain(t, s)
    \/ \E t \in Tabs, s \in Slots, c \in CounterIds, o \in OptionSet : IncrementCounter(t, s, c, o)
    \/ \E t \in Tabs, s \in Slots, o \in ReadOutcomes : IncrementRead(t, s, o)
    \/ \E t \in Tabs, s \in Slots, o \in WriteOutcomes : IncrementInserted(t, s, o)
    \/ \E t \in Tabs, s \in Slots, o \in WriteOutcomes : IncrementUpdated(t, s, o)
    \/ \E t \in Tabs, s \in Slots, o \in ReadOutcomes : IncrementFlagRead(t, s, o)

SpecIncrement == Init /\ [][NextIncrement]_vars

\* initialization and a few page visits
NextQueue ==
    \/ \E t \in Tabs : Initialize(t)
    \/ \E t \in Tabs, s \in Slots, o \in ReadOutcomes : InitializeProbed(t, s, o)
    \/ \E t \in Tabs, s \in Slots : InitializeDrain(t, s)
    \/ \E t \in Tabs, s \in Slots, c \in CounterIds :
          calls < MaxQueueCalls /\ IncrementCounter(t, s, c, CallOptions[calls + 1])
    \/ \E t \in Tabs, s \in Slots, o \in ReadOutcomes : IncrementRead(t, s, o)
    \/ \E t \in Tabs, s \in Slots, o \in WriteOutcomes : IncrementInserted(t, s, o)
    \/ \E t \in Tabs, s \in Slots, o \in WriteOutcomes : IncrementUpdated(t, s, o)
    \/ \E t \in Tabs, s \in Slots, o \in ReadOutcomes : IncrementFlagRead(t, s, o)

\* the page is loaded while a counter has no remote row or a row counting 1
InitQueue ==
    /\ Init
    /\ \A id \in DOMAIN page_counters : page_counters[id] = 1

SpecQueue == InitQueue /\ [][NextQueue]_vars

\* ---- the page is loaded by a returning visitor
\* the durable store after k visits counted in LocalOnly mode
RECURSIVE VisitedTimes(_)
VisitedTimes(k) ==
    IF k = 0 THEN EmptyStore
    ELSE saveToHistory(incrementLocal(VisitedTimes(k - 1), <<"main">>, "page"),
                       <<"main">>, "page")

\* the fields of a CounterSystem whose initialize() has returned
Initialized(fallbackEnabled) ==
    [NewCounterSystem EXCEPT !.initializing = TRUE, !.initialized = TRUE,
                             !.fallbackEnabled = fallbackEnabled]

\* every tab holds a CounterSystem in one of the given conditions
InitLoaded(systems) ==
    /\ SecurityAtRest
    /\ localStorage \in {VisitedTimes(k) : k \in 0..InitLocalMax}
    /\ sessionStorage = [t \in Tabs |-> EmptyStore]
    /\ page_counters \in RemoteTables
    /\ sys \in [Tabs -> systems]
    /\ tasks = [t \in Tabs |-> [s \in Slots |-> IdleTask]]
    /\ ret = NoReturn
    /\ calls = 0
    /\ returned = [t \in Tabs |-> [c \in CounterIds |-> 0]]
    /\ enqueued = [t \in Tabs |-> <<>>]
    /\ drained = [t \in Tabs |-> <<>>]
    /\ changes = [t \in Tabs |-> [c \in CounterIds |-> [local |-> 0, remote |-> 0]]]
    /\ click_counters = [k \in {} |-> 0]
    /\ succ = [t \in Tabs |-> NoSucc]
    /\ AdminAtRest

\* initCounterSystem has returned in every tab, in RemoteBacked mode
InitRemoteBacked == InitLoaded({Initialized(FALSE)})

\* every tab has fallbackEnabled true: before its initialization, or after
\* it in LocalOnly mode
InitFallback == InitLoaded({NewCounterSystem, Initialized(TRUE)})

\* page visits and reconciliation after initialization
NextSync ==
    \/ \E t \in Tabs, s \in Slots, c \in CounterIds, o \in OptionSet :
          calls < MaxSyncCalls /\ IncrementCounter(t, s, c, o)
    \/ \E t \in Tabs, s \in Slots, o \in ReadOutcomes : IncrementRead(t, s, o)
    \/ \E t \in Tabs, s \in Slots, o \in WriteOutcomes : IncrementInserted(t, s, o)
    \/ \E t \in Tabs, s \in Slots, o \in WriteOutcomes : IncrementUpdated(t, s, o)
    \/ \E t \in Tabs, s \in Slots, o \in ReadOutcomes : IncrementFlagRead(t, s, o)
    \/ \E t \in Tabs, s \in Slots :
          calls < MaxSyncCalls /\ SyncWithDatabase(t, s)
    \/ \E t \in Tabs, s \in Slots, o \in ReadOutcomes : SyncRead(t, s, o)
    \/ \E t \in Tabs, s \in Slots, o \in WriteOutcomes : SyncInserted(t, s, o)
    \/ \E t \in Tabs, s \in Slots, o \in WriteOutcomes : SyncUpdated(t, s, o)

SpecSync == InitRemoteBacked /\ [][NextSync]_vars

\* page visits and reconciliation by several clients, up to MaxCalls operations
NextReconcile ==
    \/ \E t \in Tabs, s \in Slots, c \in CounterIds, o \in OptionSet : IncrementCounter(t, s, c, o)
    \/ \E t \in Tabs, s \in Slots, o \in ReadOutcomes : IncrementRead(t, s, o)
    \/ \E t \in Tabs, s \in Slots, o \in WriteOutcomes : IncrementInserted(t, s, o)
    \/ \E t \in Tabs, s \in Slots, o \in WriteOutcomes : IncrementUpdated(t, s, o)
    \/ \E t \in Tabs, s \in Slots, o \in ReadOutcomes : IncrementFlagRead(t, s, o)
    \/ \E t \in Tabs, s \in Slots : SyncWithDatabase(t, s)
    \/ \E t \in Tabs, s \in Slots, o \in ReadOutcomes : SyncRead(t, s, o)
    \/ \E t \in Tabs, s \in Slots, o \in WriteOutcomes : SyncInserted(t, s, o)
    \/ \E t \in Tabs, s \in Slots, o \in WriteOutcomes : SyncUpdated(t, s, o)

SpecReconcile == InitRemoteBacked /\ [][NextReconcile]_vars

\* page visits and reads of the count in RemoteBacked mode
NextGet ==
    \/ \E t \in Tabs, s \in Slots, c \in CounterIds, o \in OptionSet :
          calls < MaxGetCalls /\ IncrementCounter(t, s, c, o)
    \/ \E t \in Tabs, s \in Slots, o \in ReadOutcomes : IncrementRead(t, s, o)
    \/ \E t \in Tabs, s \in Slots, o \in WriteOutcomes : IncrementInserted(t, s, o)
    \/ \E t \in Tabs, s \in Slots, o \in WriteOutcomes : IncrementUpdated(t, s, o)
    \/ \E t \in Tabs, s \in Slots, o \in ReadOutcomes : IncrementFlagRead(t, s, o)
    \/ \E t \in Tabs, s \in Slots, c \in CounterIds :
          calls < MaxGetCalls /\ GetCounterValue(t, s, c)
    \/ \E t \in Tabs, s \in Slots, o \in ReadOutcomes : GetCounterValueDone(t, s, o)

SpecGet == InitRemoteBacked /\ [][NextGet]_vars

\* the five operations that test the mode, called where fallbackEnabled is true
NextLocal ==
    \/ \E t \in Tabs, s \in Slots, c \in CounterIds, o \in OptionSet :
          calls < MaxLocalCalls /\ IncrementCounter(t, s, c, o)
    \/ \E t \in Tabs, s \in Slots, c \in CounterIds :
          calls < MaxLocalCalls /\ GetCounterValue(t, s, c)
    \/ \E t \in Tabs, s \in Slots, b \in ButtonIds :
          calls < MaxLocalCalls /\ IncrementClickCounter(t, s, b)
    \/ \E t \in Tabs, s \in Slots, b \in ButtonIds :
          calls < MaxLocalCalls /\ GetClickCounter(t, s, b)
    \/ \E t \in Tabs, s \in Slots :
          calls < MaxLocalCalls /\ SyncWithDatabase(t, s)

SpecLocal == InitFallback /\ [][NextLocal]_vars

\* the tab whose engine is followed; the other tab stays as it was loaded
ModeTabs == {"A"}

\* initialization and every counter operation, for a few calls
NextMode ==
    \/ \E t \in ModeTabs : Initialize(t)
    \/ \E t \in ModeTabs, s \in Slots, o \in ReadOutcomes : InitializeProbed(t, s, o)
    \/ \E t \in ModeTabs, s \in Slots : InitializeDrain(t, s)
    \/ \E t \in ModeTabs, s \in Slots, c \in CounterIds, o \in OptionSet :
          calls < MaxModeCalls /\ IncrementCounter(t, s, c, o)
    \/ \E t \in ModeTabs, s \in Slots, o \in ReadOutcomes : IncrementRead(t, s, o)
    \/ \E t \in ModeTabs, s \in Slots, o \in WriteOutcomes : IncrementInserted(t, s, o)
    \/ \E t \in ModeTabs, s \in Slots, o \in WriteOutcomes : IncrementUpdated(t, s, o)
    \/ \E t \in ModeTabs, s \in Slots, o \in ReadOutcomes : IncrementFlagRead(t, s, o)
    \/ \E t \in ModeTabs, s \in Slots, c \in CounterIds :
          calls < MaxModeCalls /\ GetCounterValue(t, s, c)
    \/ \E t \in ModeTabs, s \in Slots, o \in ReadOutcomes : GetCounterValueDone(t, s, o)
    \/ \E t \in ModeTabs, s \in Slots :
          calls < MaxModeCalls /\ SyncWithDatabase(t, s)
    \/ \E t \in ModeTabs, s \in Slots, o \in ReadOutcomes : SyncRead(t, s, o)
    \/ \E t \in ModeTabs, s \in Slots, o \in WriteOutcomes : SyncInserted(t, s, o)
    \/ \E t \in ModeTabs, s \in Slots, o \in WriteOutcomes : SyncUpdated(t, s, o)

\* a returning visitor loads the page: no tab has called initialize() yet
InitReturning == InitLoaded({NewCounterSystem})

SpecMode == InitReturning /\ [][NextMode]_vars

\* the tab whose clicks are followed; the other tab stays as it was loaded
ClickTabs == {"A"}

\* button clicks and reconciliation in RemoteBacked mode
NextClick ==
    \/ \E t \in ClickTabs, s \in Slots, b \in ButtonIds :
          calls < MaxClickCalls /\ IncrementClickCounter(t, s, b)
    \/ \E t \in ClickTabs, s \in Slots, o \in ReadOutcomes : ClickRead(t, s, o)
    \/ \E t \in ClickTabs, s \in Slots, o \in WriteOutcomes : ClickInserted(t, s, o)
    \/ \E t \in ClickTabs, s \in Slots, o \in WriteOutcomes : ClickUpdated(t, s, o)
    \/ \E t \in ClickTabs, s \in Slots, b \in ButtonIds :
          calls < MaxClickCalls /\ GetClickCounter(t, s, b)
    \/ \E t \in ClickTabs, s \in Slots, o \in ReadOutcomes : GetClickCounterDone(t, s, o)
    \/ \E t \in ClickTabs, s \in Slots :
          calls < MaxClickCalls /\ SyncWithDatabase(t, s)
    \/ \E t \in ClickTabs, s \in Slots, o \in ReadOutcomes : SyncRead(t, s, o)
    \/ \E t \in ClickTabs, s \in Slots, o \in WriteOutcomes : SyncInserted(t, s, o)
    \/ \E t \in ClickTabs, s \in Slots, o \in WriteOutcomes : SyncUpdated(t, s, o)

SpecClick == InitRemoteBacked /\ [][NextClick]_vars

\* ---- every operation of the counters, on the page of a returning visitor
NextMirror ==
    \/ \E t \in ModeTabs : Initialize(t)
    \/ \E t \in ModeTabs, s \in Slots, o \in ReadOutcomes : InitializeProbed(t, s, o)
    \/ \E t \in ModeTabs, s \in Slots : InitializeDrain(t, s)
    \/ \E t \in ModeTabs, s \in Slots, c \in CounterIds, o \in OptionSet :
          calls < MaxMirrorCalls /\ IncrementCounter(t, s, c, o)
    \/ \E t \in ModeTabs, s \in Slots, o \in ReadOutcomes : IncrementRead(t, s, o)
    \/ \E t \in ModeTabs, s \in Slots, o \in WriteOutcomes : IncrementInserted(t, s, o)
    \/ \E t \in ModeTabs, s \in Slots, o \in WriteOutcomes : IncrementUpdated(t, s, o)
    \/ \E t \in ModeTabs, s \in Slots, o \in ReadOutcomes : IncrementFlagRead(t, s, o)
    \/ \E t \in ModeTabs, s \in Slots, c \in CounterIds :
          calls < MaxMirrorCalls /\ GetCounterValue(t, s, c)
    \/ \E t \in ModeTabs, s \in Slots, o \in ReadOutcomes : GetCounterValueDone(t, s, o)
    \/ \E t \in ModeTabs, s \in Slots, b \in ButtonIds :
          calls < MaxMirrorCalls /\ IncrementClickCounter(t, s, b)
    \/ \E t \in ModeTabs, s \in Slots, o \in ReadOutcomes : ClickRead(t, s, o)
    \/ \E t \in ModeTabs, s \in Slots, o \in WriteOutcomes : ClickInserted(t, s, o)
    \/ \E t \in ModeTabs, s \in Slots, o \in WriteOutcomes : ClickUpdated(t, s, o)
    \/ \E t \in ModeTabs, s \in Slots, b \in ButtonIds :
          calls < MaxMirrorCalls /\ GetClickCounter(t, s, b)
    \/ \E t \in ModeTabs, s \in Slots, o \in ReadOutcomes : GetClickCounterDone(t, s, o)
    \/ \E t \in ModeTabs, s \in Slots :
          calls < MaxMirrorCalls /\ SyncWithDatabase(t, s)
    \/ \E t \in ModeTabs, s \in Slots, o \in ReadOutcomes : SyncRead(t, s, o)
    \/ \E t \in ModeTabs, s \in Slots, o \in WriteOutcomes : SyncInserted(t, s, o)
    \/ \E t \in ModeTabs, s \in Slots, o \in WriteOutcomes : SyncUpdated(t, s, o)

\* the visitor has been counted before: the mirror holds InitLocalMax visits
\* and the remote row, if there is one, holds that many or fewer
InitMirror ==
    /\ InitReturning
    /\ \A c \in CounterIds : LocalCount(localStorage, c) = InitLocalMax

SpecMirror == InitMirror /\ [][NextMirror]_vars

\* ---- concurrent sessions on a healthy remote store
\* every tab is in RemoteBacked mode and the counter's row counts 1
InitRace ==
    /\ InitRemoteBacked
    /\ DOMAIN page_counters = CounterIds
    /\ \A id \in DOMAIN page_counters : page_counters[id] = 1

\* page visits whose remote calls all succeed
NextRace ==
    \/ \E t \in Tabs, s \in Slots, c \in CounterIds, o \in OptionSet :
          calls < MaxRaceCalls /\ IncrementCounter(t, s, c, o)
    \/ \E t \in Tabs, s \in Slots : IncrementRead(t, s, "ok")
    \/ \E t \in Tabs, s \in Slots : IncrementUpdated(t, s, "ok")
    \/ \E t \in Tabs, s \in Slots : IncrementFlagRead(t, s, "ok")

SpecRace == InitRace /\ [][NextRace]_vars

\* ---- a frequent visitor: the histories are about to reach their caps
\* the page history after n visits, the last of them at the instant 0
PastVisits(n) ==
    [i \in 1..n |-> [timestamp |-> toISOString(i - n), counterId |-> <<"main">>,
                     options |-> "page"]]

\* the click history after m clicks, the last of them at the instant 0
PastClicks(m) ==
    [i \in 1..m |-> [timestamp |-> toISOString(i - m), buttonId |-> <<"buy">>]]

\* the durable store after n counted visits and m counted clicks
VisitedOften(n, m) ==
    LET visits == setItem(setItem(setItem(EmptyStore,
                      CounterKey(<<"main">>), Text(toString(n))),
                      CounterKey(<<"main">>) \o <<"_details">>, Json([options |-> "page"])),
                      CounterKey(<<"main">>) \o <<"_history">>, Json(PastVisits(n)))
    IN  setItem(setItem(visits,
                ClickKey(<<"buy">>), Text(toString(m))),
                ClickKey(<<"buy">>) \o <<"_history">>, Json(PastClicks(m)))

\* every tab is initialized in LocalOnly mode and opens a new browsing session
InitHistory ==
    /\ SecurityAtRest
    /\ localStorage \in {VisitedOften(HistoryCap - n, ClickHistoryCap - m) :
                           n \in 0..MaxHistoryRoom, m \in 0..MaxHistoryRoom}
    /\ sessionStorage = [t \in Tabs |-> EmptyStore]
    /\ page_counters = [k \in {} |-> 0]
    /\ sys = [t \in Tabs |-> Initialized(TRUE)]
    /\ tasks = [t \in Tabs |-> [s \in Slots |-> IdleTask]]
    /\ ret = NoReturn
    /\ calls = 0
    /\ returned = [t \in Tabs |-> [c \in CounterIds |-> 0]]
    /\ enqueued = [t \in Tabs |-> <<>>]
    /\ drained = [t \in Tabs |-> <<>>]
    /\ changes = [t \in Tabs |-> [c \in CounterIds |-> [local |-> 0, remote |-> 0]]]
    /\ click_counters = [k \in {} |-> 0]
    /\ succ = [t \in Tabs |-> NoSucc]
    /\ AdminAtRest

\* visits and clicks are counted while time passes
NextHistory ==
    \/ \E t \in Tabs, s \in Slots, c \in CounterIds, o \in OptionSet :
          calls < MaxHistoryCalls /\ IncrementCounter(t, s, c, o)
    \/ \E t \in Tabs, s \in Slots, b \in ButtonIds :
          calls < MaxHistoryCalls /\ IncrementClickCounter(t, s, b)
    \/ ticks < MaxHistoryTicks /\ Tick(MsPerSecond)

SpecHistory == InitHistory /\ [][NextHistory]_vars

\* ---- the security specification
\* the page has counted its visit in LocalOnly mode before the SecuritySystem is used
VisitedLocal ==
    saveToHistory(incrementLocal(EmptyStore, <<"main">>, "page"), <<"main">>, "page")

VisitedSession == setItem(EmptyStore, SessionKey(<<"main">>), Text(<<"true">>))

CountersAtRest ==
    /\ page_counters = [k \in {} |-> 0]
    /\ sys = [t \in Tabs |-> NewCounterSystem]
    /\ tasks = [t \in Tabs |-> [s \in Slots |-> IdleTask]]
    /\ ret = NoReturn
    /\ calls = 0
    /\ returned = [t \in Tabs |-> [c \in CounterIds |-> 0]]
    /\ enqueued = [t \in Tabs |-> <<>>]
    /\ drained = [t \in Tabs |-> <<>>]
    /\ changes = [t \in Tabs |-> [c \in CounterIds |-> [local |-> 0, remote |-> 0]]]
    /\ click_counters = [k \in {} |-> 0]
    /\ succ = [t \in Tabs |-> NoSucc]

\* new SecuritySystem() on a page whose callers pass limit 1, interval 1000
InitSec ==
    /\ SecurityAtRest
    /\ localStorage = VisitedLocal
    /\ sessionStorage = [t \in Tabs |-> VisitedSession]
    /\ CountersAtRest
    /\ AdminAtRest

\* new SecuritySystem() on a page whose callers pass any fixed limit and interval
InitRate ==
    /\ now = 0
    /\ localStorage = VisitedLocal
    /\ sessionStorage = [t \in Tabs |-> VisitedSession]
    /\ CountersAtRest
    /\ AdminAtRest
    /\ ticks = 0
    /\ random = 0
    /\ result = NoResult
    /\ rateArgs \in [RateActions -> [limit : Limits, interval : Intervals]]
    /\ rateCalls = [t \in Tabs |-> [a \in RateActions |-> 0]]
    /\ rateFirst = [t \in Tabs |-> [a \in RateActions |-> 0]]
    /\ windowAllowed = [t \in Tabs |-> [a \in RateActions |-> 0]]
    /\ allowedAt = [t \in Tabs |-> [a \in RateActions |-> <<>>]]
    /\ deniedUntil = [t \in Tabs |-> [a \in RateActions |-> 0]]
    /\ creator = ""
    /\ teardown = "none"
    /\ forms = [t \in Tabs |-> [f \in FormIds |-> NotSecured]]

\* what a caller passes to verifyCSRFToken: a generated token, another
\* string, or null for a request that carries no token
Tokens ==
    {Text(generateRandomString(32, n)) : n \in 1..MaxRandom} \cup {Text(<<"forged">>), null}

\* sessions and CSRF tokens, over hours and days
NextSec ==
    \/ \E step \in SessionSteps : Tick(step)
    \/ \E t \in Tabs : generateCSRFToken(t)
    \/ \E t \in Tabs, token \in Tokens : verifyCSRFToken(t, token)
    \/ \E t \in Tabs, u \in Users : createSession(t, u)
    \/ \E t \in Tabs : validateSession(t)
    \/ \E t \in Tabs : destroySession(t)

SpecSec == InitSec /\ [][NextSec]_vars

\* the session's life: every method that writes or removes the session record
NextSession ==
    \/ \E step \in SessionSteps : ticks < MaxSessionTicks /\ Tick(step)
    \/ \E t \in Tabs : generateCSRFToken(t)
    \/ \E t \in Tabs, u \in Users : createSession(t, u)
    \/ \E t \in Tabs : validateSession(t)
    \/ \E t \in Tabs : destroySession(t)

SpecSession == InitSec /\ [][NextSession]_vars

\* the session's renewal, with the clock stepping around 80% of the duration
NextRenewal ==
    \/ \E step \in RenewalSteps : Tick(step)
    \/ \E t \in Tabs, u \in Users : createSession(t, u)
    \/ \E t \in Tabs : validateSession(t)
    \/ \E t \in Tabs : destroySession(t)

SpecRenewal == InitSec /\ [][NextRenewal]_vars

\* rate limiting, over milliseconds and seconds
\* the tab whose bucket is followed: a bucket lies in its tab's own volatile store
RateTabs == {"A"}

NextRate ==
    \/ \E step \in RateSteps : ticks < MaxRateTicks /\ Tick(step)
    \/ \E t \in RateTabs, a \in RateActions : checkRateLimit(t, a)
    \/ \E t \in RateTabs : destroySession(t)

SpecRate == InitRate /\ [][NextRate]_vars

\* rate-limited calls over several windows, with no teardown
NextWindow ==
    \/ \E step \in RateSteps : ticks < MaxWindowTicks /\ Tick(step)
    \/ \E t \in RateTabs, a \in RateActions : checkRateLimit(t, a)

SpecWindow == InitRate /\ [][NextWindow]_vars

\* every SecuritySystem method that writes a store, at one instant
NextStore ==
    \/ \E t \in Tabs, a \in RateActions : checkRateLimit(t, a)
    \/ \E t \in Tabs : generateCSRFToken(t)
    \/ \E t \in Tabs, u \in Users : createSession(t, u)
    \/ \E t \in Tabs : destroySession(t)
    \/ \E t \in Tabs : createCaptcha(t)

SpecStore == InitSec /\ [][NextStore]_vars

\* ---- the end of a giveaway
\* the giveaway's end date has come: it has a few participants and is not
\* finished
InitFinish ==
    /\ SecurityAtRest
    /\ localStorage = VisitedLocal
    /\ sessionStorage = [t \in Tabs |-> VisitedSession]
    /\ CountersAtRest
    /\ giveaways \in [winners_count : 1..MaxFinishWinners, is_finished : {FALSE}]
    /\ giveaway_participants \in {Participants(n) : n \in 0..MaxFinishParticipants}
    /\ giveaway_winners = {}
    /\ selection = NoSelection
    /\ selected = NotSelected
    /\ inserts = 0
    /\ finish = [c \in Callers |-> NotFinishing]
    /\ users = UsersAtStart
    /\ deletion = [a \in AdminIds |-> NotDeleting]

\* the timer and the admin call finishGiveaway for the giveaway
NextFinish ==
    \/ \E c \in Callers : FinishGiveaway(c)
    \/ \E c \in Callers, outcome \in ReadOutcomes : FinishGiveawayRead(c, outcome)
    \/ \E outcome \in ReadOutcomes : SelectWinnersGiveaway(outcome)
    \/ \E outcome \in ReadOutcomes : SelectWinnersParticipants(outcome)
    \/ \E word \in RandomWords : SelectWinnersDraw(word)
    \/ SelectWinnersDrawn
    \/ \E outcome \in WriteOutcomes : SelectWinnersSave(outcome)
    \/ SelectWinnersReturn
    \/ \E c \in Callers : FinishGiveawaySelected(c)
    \/ \E c \in Callers, outcome \in WriteOutcomes : FinishGiveawayUpdated(c, outcome)
    \/ \E c \in Callers : FinishGiveawayReturn(c)

SpecFinish == InitFinish /\ [][NextFinish]_vars

\* ---- the deletion of users
\* the admin panels of a superadmin and of an admin are open
InitDelete ==
    /\ SecurityAtRest
    /\ localStorage = VisitedLocal
    /\ sessionStorage = [t \in Tabs |-> VisitedSession]
    /\ CountersAtRest
    /\ AdminAtRest

NextDelete ==
    \/ \E a \in AdminIds, userId \in AccountIds : deleteUser(a, userId)
    \/ \E a \in AdminIds, outcome \in ReadOutcomes : DeleteUserLookedUp(a, outcome)
    \/ \E a \in AdminIds, outcome \in WriteOutcomes : DeleteUserDeleted(a, outcome)
    \/ \E a \in AdminIds : DeleteUserReturn(a)

SpecDelete == InitDelete /\ [][NextDelete]_vars

\* ---- the forms of a page
\* the tab whose page is followed
FormTabs == {"A"}

FormSteps == {1, csrfLifetime}

\* the page's forms are secured one after the other and submitted, with no
\* session teardown
NextForm ==
    \/ \E step \in FormSteps : ticks < MaxFormTicks /\ Tick(step)
    \/ \E t \in FormTabs, f \in FormIds : secureForm(t, f)
    \/ \E t \in FormTabs, f \in FormIds : SubmitForm(t, f)

SpecForm == InitSec /\ [][NextForm]_vars

\* ---- the giveaway specification
\* the admin panel is open on a giveaway with any winners_count and any
\* number of participants
InitAdmin ==
    /\ SecurityAtRest
    /\ localStorage = VisitedLocal
    /\ sessionStorage = [t \in Tabs |-> VisitedSession]
    /\ CountersAtRest
    /\ giveaways \in [winners_count : 0..MaxWinnersCount, is_finished : {FALSE}]
    /\ giveaway_participants \in {Participants(n) : n \in 0..MaxParticipants}
    /\ giveaway_winners = {}
    /\ selection = NoSelection
    /\ selected = NotSelected
    /\ inserts = 0
    /\ finish = [c \in Callers |-> NotFinishing]
    /\ users = UsersAtStart
    /\ deletion = [a \in AdminIds |-> NotDeleting]

NextAdmin ==
    \/ SelectWinners
    \/ \E outcome \in ReadOutcomes : SelectWinnersGiveaway(outcome)
    \/ \E outcome \in ReadOutcomes : SelectWinnersParticipants(outcome)
    \/ \E word \in RandomWords : SelectWinnersDraw(word)
    \/ SelectWinnersDrawn
    \/ \E outcome \in WriteOutcomes : SelectWinnersSave(outcome)
    \/ SelectWinnersReturn

SpecAdmin == InitAdmin /\ [][NextAdmin]_vars

\* ------------------------------------------------------------------ claims
\* C1: every value getCounterValue returns for a counter is greater than or
\* equal to every value it returned earlier for that counter (in the same
\* tab), whether the remote calls succeed or fail.
GetCounterValueNeverDecreases ==
    [][(ret'.get /\ ret' # ret) =>
          ret'.value >= returned[ret'.tab][ret'.counterId]]_vars

\* C2: within one browsing session (one tab, whose counter_visited_ flag is
\* never cleared) all incrementCounter calls for a counter together change
\* its local mirror at most once and its remote count at most once.
IncrementAtMostOncePerSession ==
    \A t \in Tabs, c \in CounterIds :
        changes[t][c].local <= 1 /\ changes[t][c].remote <= 1

\* initialize() was called in tab t and has run to its end
InitializeEnded(t) ==
    sys[t].initializing /\ \A s \in Slots : tasks[t][s].op # "initialize"

\* C3: whatever the probe's outcome, initialize() ends with initialized =
\* true, the queue empty and every enqueued request re-submitted exactly once.
InitializeEndsDrained ==
    \A t \in Tabs :
        InitializeEnded(t) =>
            /\ sys[t].initialized
            /\ sys[t].pendingIncrements = <<>>
            /\ drained[t] = enqueued[t]

\* C4: with a fixed limit >= 1 and a fixed interval, every allowed call
\* leaves the stored count <= limit and reports remaining = limit - count
\* >= 0, and between two window resets at most `limit` calls are allowed.
RateLimitNeverExceeded ==
    \A t \in Tabs, a \in RateActions :
        LET limit == rateArgs[a].limit
            stored == getItem(sessionStorage[t], RateKey(a))
        IN  /\ windowAllowed[t][a] <= limit
            /\ stored.kind = "json" => stored.v.count <= limit
            /\ (result.fn = "checkRateLimit" /\ result.tab = t /\ result.arg = <<a>>
                    /\ result.ok)
               => /\ stored.kind = "json"
                  /\ result.remaining = limit - stored.v.count
                  /\ result.remaining >= 0

\* an allowed call has just filled a window of a limit of at least 2
RateWindowFilled ==
    \E t \in Tabs, a \in RateActions :
        /\ result.fn = "checkRateLimit" /\ result.tab = t /\ result.arg = <<a>>
        /\ result.ok /\ result.remaining = 0
        /\ rateArgs[a].limit >= 2
        /\ windowAllowed[t][a] = rateArgs[a].limit

\* what the k-th call since the bucket was absent has returned (state after the call)
BurstCall(t, a, withinSpan, retryPositive) ==
    LET limit == rateArgs[a].limit
        k == rateCalls[t][a]
    IN  withinSpan =>
          /\ k <= limit => (result.ok /\ result.remaining = limit - k)
          /\ k = limit + 1 => (~result.ok /\ (retryPositive => result.retryAfter > 0))

\* C5 as stated: when L+1 consecutive calls for a fresh action are all made
\* within I ms of the first one (at most I ms after it), the first L are
\* allowed with remaining L-1, ..., 0 and the (L+1)-th is denied with
\* retryAfter > 0.
RateBurstWithinInterval ==
    [][\A t \in Tabs, a \in RateActions :
          checkRateLimit(t, a) =>
              BurstCall(t, a, now - rateFirst[t][a] <= rateArgs[a].interval, TRUE)']_vars

\* C5 amended: the first L calls are allowed with remaining L-1, ..., 0 and
\* the (L+1)-th is denied; its retryAfter is > 0 when it is made less than
\* I ms after the first call, and is 0 when it is made exactly I ms after it.
RateBurstBeforeReset ==
    [][\A t \in Tabs, a \in RateActions :
          checkRateLimit(t, a) =>
              /\ BurstCall(t, a, now - rateFirst[t][a] <= rateArgs[a].interval,
                           now - rateFirst[t][a] < rateArgs[a].interval)'
              /\ (/\ rateCalls'[t][a] = rateArgs[a].limit + 1
                  /\ now - rateFirst'[t][a] = rateArgs[a].interval)
                 => result'.retryAfter = 0]_vars

\* the (L+1)-th call of a burst has been denied with a positive retryAfter
RateBurstDenied ==
    \E t \in Tabs, a \in RateActions :
        /\ result.fn = "checkRateLimit" /\ result.tab = t /\ result.arg = <<a>>
        /\ ~result.ok /\ result.retryAfter > 0
        /\ rateArgs[a].limit >= 2
        /\ rateCalls[t][a] = rateArgs[a].limit + 1

\* C6: a validateSession() call made in the tab whose createSession wrote
\* the current record, before the record's expiry, returns the stored user
\* data and leaves the record in place.
ValidSessionAccepted ==
    [][\A t \in Tabs :
          (/\ validateSession(t)
           /\ creator = t
           /\ HasSession(localStorage)
           /\ now < StoredSession(localStorage).expires)
          => /\ result'.ok
             /\ result'.value = StoredSession(localStorage).user
             /\ HasSession(localStorage')]_vars

\* validateSession has returned the user data some time after createSession
SessionValidatedLater ==
    /\ result.fn = "validateSession" /\ result.ok /\ result.value \in Users
    /\ creator = result.tab
    /\ HasSession(localStorage)
    /\ now > StoredSession(localStorage).created

\* C7: when the record's expires lies in the past, validateSession()
\* returns false and leaves no user_session entry; every later
\* validateSession() returns false until createSession is called again.
ExpiredSessionRejected ==
    [][\A t \in Tabs :
          validateSession(t) =>
            /\ (HasSession(localStorage) /\ now > StoredSession(localStorage).expires)
               => (~result'.ok /\ <<"user_session">> \notin ObjectKeys(localStorage'))
            /\ teardown = "expired" => ~result'.ok]_vars

\* after an expired session was destroyed, a later validateSession found nothing
ExpiredThenRejectedAgain ==
    /\ teardown = "expired"
    /\ result.fn = "validateSession" /\ ~result.ok
    /\ result.removed.durable = {}
    /\ <<"user_session">> \notin ObjectKeys(localStorage)

DurableSessionKeys == {<<"user_session">>, <<"csrf_token">>, <<"csrf_token_expires">>}

VolatileSessionKey(key) ==
    \/ key \in {<<"session_id">>, <<"csrf_token">>}
    \/ startsWith(key, "rate_limit_")
    \/ startsWith(key, "captcha_")

\* ls2 and ss2 are ls and ss without the session's keys, every other key as it was
TornDown(ls, ls2, ss, ss2) ==
    /\ ObjectKeys(ls2) = ObjectKeys(ls) \ DurableSessionKeys
    /\ \A k \in ObjectKeys(ls2) : ls2[k] = ls[k]
    /\ ObjectKeys(ss2) = {k \in ObjectKeys(ss) : ~VolatileSessionKey(k)}
    /\ \A k \in ObjectKeys(ss2) : ss2[k] = ss[k]

\* C8: when the tab's session_id is absent or differs from the id of the
\* durable record, validateSession() returns false and tears the session
\* down as destroySession does; it never returns user data while the two
\* stores disagree.
MismatchDestroysSession ==
    [][\A t \in Tabs :
          validateSession(t) =>
            /\ (/\ HasSession(localStorage)
                /\ getItem(sessionStorage[t], <<"session_id">>)
                      # Text(StoredSession(localStorage).id))
               => /\ ~result'.ok
                  /\ TornDown(localStorage, localStorage',
                              sessionStorage[t], sessionStorage'[t])
            /\ result'.ok
               => /\ HasSession(localStorage)
                  /\ getItem(sessionStorage[t], <<"session_id">>)
                        = Text(StoredSession(localStorage).id)]_vars

\* validateSession has destroyed an unexpired session over an id mismatch
MismatchTornDown ==
    /\ teardown = "mismatch"
    /\ result.fn = "validateSession" /\ ~result.ok
    /\ <<"user_session">> \in result.removed.durable

\* C9: verifyCSRFToken(token) returns true when token is the most recently
\* generated token and less than 1 hour old, and false for every other string
\* and for every token once its hour has passed; also with several tabs.
OnlyLatestTokenVerifies ==
    [][\A t \in Tabs, token \in Tokens \ {null} :
          verifyCSRFToken(t, token) =>
            LET latest == getItem(localStorage, <<"csrf_token">>)
                expires == parseInt(getItem(localStorage, <<"csrf_token_expires">>))
            IN  Truthy(latest) =>
                  /\ (token = latest /\ now < expires) => result'.ok
                  /\ token # latest => ~result'.ok
                  /\ now > expires => ~result'.ok]_vars

\* C10: destroySession() leaves no user_session, csrf_token or
\* csrf_token_expires in the durable store and no session_id, csrf_token,
\* rate_limit_* or captcha_* key in the tab's volatile store; every other key
\* of both stores, and the other tabs' volatile stores, are unchanged.
DestroySessionFrame ==
    [][\A t \in Tabs :
          destroySession(t) =>
            /\ TornDown(localStorage, localStorage', sessionStorage[t], sessionStorage'[t])
            /\ \A t2 \in Tabs \ {t} : sessionStorage'[t2] = sessionStorage[t2]]_vars

\* destroySession has removed a full set of session keys and left the counter keys
FullTeardownDone ==
    /\ result.fn = "destroySession"
    /\ result.removed.durable = DurableSessionKeys
    /\ {<<"session_id">>, <<"csrf_token">>, RateKey("login"), <<"captcha_", "text">>}
          \subseteq result.removed.volatile
    /\ CounterKey(<<"main">>) \in ObjectKeys(localStorage)
    /\ SessionKey(<<"main">>) \in ObjectKeys(sessionStorage[result.tab])
\* created + 1.8 x duration
RenewalBound(session) == session.created + (sessionDuration * 18) \div 10

\* C11: the record's expires is set to now + duration only at a moment when
\* now - created < 0.8 x duration; hence expires never exceeds created +
\* 1.8 x duration, and validateSession returns false at every time later
\* than that bound.
SessionRenewalBounded ==
    [][LET before == StoredSession(localStorage)
           after == StoredSession(localStorage')
           written == \/ ~HasSession(localStorage)
                      \/ after.expires # before.expires
       IN  /\ (HasSession(localStorage') /\ written)
                  => (/\ after.expires = now + sessionDuration
                      /\ now - after.created < RenewalWindow)
           /\ HasSession(localStorage') => (after.expires <= RenewalBound(after))
           /\ \A t \in Tabs :
                 (/\ validateSession(t)
                  /\ HasSession(localStorage)
                  /\ now > RenewalBound(before))
                 => ~result'.ok]_vars

\* validateSession has renewed the session in the last millisecond of the
\* renewal window
SessionRenewedAtLastMoment ==
    /\ result.fn = "validateSession" /\ result.ok
    /\ HasSession(localStorage)
    /\ StoredSession(localStorage).lastActivity
          = StoredSession(localStorage).created + RenewalWindow - 1
    /\ StoredSession(localStorage).expires
          = RenewalBound(StoredSession(localStorage)) - 1
SyncNeverDecreasesRemote ==
    [][\A t \in Tabs, s \in Slots, o \in WriteOutcomes :
          (SyncInserted(t, s, o) \/ SyncUpdated(t, s, o))
          => \A id \in DOMAIN page_counters :
                page_counters'[id] >= page_counters[id]]_vars
\* C14: a counter's remote count is a non-negative integer that never
\* decreases under any interleaving of incrementCounter calls issued by
\* several clients against the same remote store.
RemoteCountNeverDecreases ==
    [][\A id \in DOMAIN page_counters :
          /\ id \in DOMAIN page_counters'
          /\ page_counters'[id] \in Nat
          /\ page_counters'[id] >= page_counters[id]]_vars
\* C15: an incrementCounter call made while initialized is false appends
\* (counterId, options) to the pending queue, performs exactly one local
\* increment, issues no remote access, and returns the new local mirror value
\* without waiting for initialization to finish.
EarlyIncrementIsLocal ==
    [][\A t \in Tabs, s \in Slots, c \in CounterIds, o \in QueueOptions :
          (IncrementCounter(t, s, c, o) /\ ~sys[t].initialized)
          => /\ sys'[t].pendingIncrements
                   = sys[t].pendingIncrements \o <<[counterId |-> c, options |-> o]>>
             /\ LocalCount(localStorage', c) = LocalCount(localStorage, c) + 1
             /\ page_counters' = page_counters
             /\ click_counters' = click_counters
             /\ tasks'[t][s] = IdleTask
             /\ ret' = [tab |-> t, fn |-> "incrementCounter", get |-> FALSE,
                        counterId |-> c, value |-> LocalCount(localStorage', c)]
             /\ ~sys'[t].initialized]_vars

\* a second early call has returned while the probe of initialize() is
\* still in flight
EarlyIncrementReturned ==
    \E t \in Tabs :
        /\ sys[t].initializing /\ ~sys[t].initialized
        /\ ret.tab = t /\ ret.fn = "incrementCounter" /\ ret.value >= 2
        /\ Len(sys[t].pendingIncrements) = 2
\* the points where an operation waits for the remote store
RemotePcs ==
    {"probe", "inc_read", "inc_insert", "inc_update", "flag_read", "get_read",
     "click_read", "click_insert", "click_update", "clickget_read",
     "sync_read", "sync_insert", "sync_update"}

\* the step leaves tab t's slot s without a remote call in flight and both
\* remote tables as they were
NoRemoteAccess(t, s) ==
    /\ tasks'[t][s].pc \notin RemotePcs
    /\ page_counters' = page_counters
    /\ click_counters' = click_counters

\* C16: while fallbackEnabled is true, incrementCounter, getCounterValue,
\* incrementClickCounter, getClickCounter and syncWithDatabase issue no remote
\* read or write, and syncWithDatabase changes no store at all.
LocalOnlySkipsRemote ==
    [][\A t \in Tabs, s \in Slots :
          sys[t].fallbackEnabled =>
            /\ (\/ \E c \in CounterIds, o \in OptionSet : IncrementCounter(t, s, c, o)
                \/ \E c \in CounterIds : GetCounterValue(t, s, c)
                \/ \E b \in ButtonIds : IncrementClickCounter(t, s, b)
                \/ \E b \in ButtonIds : GetClickCounter(t, s, b)
                \/ SyncWithDatabase(t, s))
               => NoRemoteAccess(t, s)
            /\ SyncWithDatabase(t, s)
               => /\ localStorage' = localStorage
                  /\ sessionStorage' = sessionStorage
                  /\ ret'.fn = "syncWithDatabase" /\ ret'.value = 0]_vars

\* syncWithDatabase has returned false in a LocalOnly tab whose local mirror
\* is ahead of the remote count
LocalOnlySyncSkipped ==
    \E t \in Tabs :
        /\ sys[t].fallbackEnabled /\ sys[t].initialized
        /\ ret.tab = t /\ ret.fn = "syncWithDatabase" /\ ret.value = 0
        /\ \E c \in CounterIds :
              /\ LocalCount(localStorage, c) >= 1
              /\ (~HasRow(page_counters, c) \/ page_counters[c] < LocalCount(localStorage, c))
\* C17: in RemoteBacked mode getCounterValue returns max(remote count, local
\* mirror) when the remote read succeeds and exactly the local mirror when the
\* read fails (error result or thrown exception); it always returns a
\* number, never less than the local mirror.
GetCounterValueReconciles ==
    [][\A t \in Tabs, s \in Slots, o \in ReadOutcomes :
          (GetCounterValueDone(t, s, o) \/ IncrementFlagRead(t, s, o))
          => LET c == tasks[t][s].counterId
                 localCount == LocalCount(localStorage, c)
             IN  /\ ret'.get /\ ret'.tab = t /\ ret'.counterId = c
                 /\ tasks'[t][s] = IdleTask
                 /\ ret'.value \in Nat
                 /\ ret'.value >= localCount
                 /\ (o = "ok" /\ HasRow(page_counters, c))
                       => ret'.value = Max(page_counters[c], localCount)
                 /\ (o # "ok" \/ ~HasRow(page_counters, c))
                       => ret'.value = localCount]_vars

\* getCounterValue has returned the local mirror after a failed read, the
\* remote count being larger
GetCounterValueDegraded ==
    /\ ret.fn = "getCounterValue" /\ ret.get
    /\ ~sys[ret.tab].fallbackEnabled
    /\ HasRow(page_counters, ret.counterId)
    /\ ret.value = LocalCount(localStorage, ret.counterId)
    /\ ret.value < page_counters[ret.counterId]
\* C18: when a remote call of incrementCounter fails in RemoteBacked mode
\* (error result or thrown exception), the call returns a number and leaves
\* the local and volatile stores as the same call leaves them in LocalOnly
\* mode: local mirror raised by one, per-session flag set, history entry
\* appended.
FailedIncrementEndsAsLocalOnly ==
    [][\A t \in Tabs, s \in Slots, o \in {"error", "throw"} :
          (/\ \/ IncrementRead(t, s, o)
              \/ IncrementInserted(t, s, o)
              \/ IncrementUpdated(t, s, o)
           /\ tasks'[t][s].pc \notin RemotePcs)
          => LET c == tasks[t][s].counterId
                 options == tasks[t][s].options
             IN  /\ ret'.fn = "incrementCounter" /\ ret'.tab = t
                 /\ ret'.value \in Nat
                 /\ localStorage'
                       = saveToHistory(incrementLocal(localStorage, c, options), c, options)
                 /\ sessionStorage'[t]
                       = setItem(sessionStorage[t], SessionKey(c), Text(<<"true">>))]_vars
\* C19: for a list of n participants with distinct user ids and a
\* winners_count k >= 0, selectWinners returns exactly min(k, n) winners,
\* pairwise distinct and all taken from the participant list, whatever words
\* the random source delivers.
SelectWinnersDrawsDistinct ==
    (selected.returned /\ selected.success)
    => LET winners == selected.winners
           ids == {giveaway_participants[j].user_id : j \in 1..Len(giveaway_participants)}
       IN  /\ Len(winners) = Min(giveaways.winners_count, Len(giveaway_participants))
           /\ \A a, b \in 1..Len(winners) : a /= b => winners[a].user_id /= winners[b].user_id
           /\ \A a \in 1..Len(winners) : winners[a].user_id \in ids

\* a winners_count above the number of participants was clamped, and the
\* winners came out in another order than the participants were listed
SelectWinnersClamped ==
    /\ selected.returned /\ selected.success
    /\ giveaways.winners_count > Len(giveaway_participants)
    /\ Len(selected.winners) = MaxParticipants
    /\ selected.winners[1].user_id /= giveaway_participants[1].user_id
\* C20: initialize() re-submits the queued increments in the order they were
\* enqueued, and starts each one only after the previous one has completed:
\* no two drained increments are in flight at the same time.
DrainIsFifoOneAtATime ==
    [][\A t \in Tabs, s \in Slots :
          InitializeDrain(t, s)
          => /\ Len(drained[t]) < Len(enqueued[t])
             /\ drained'[t] = SubSeq(enqueued[t], 1, Len(drained[t]) + 1)
             /\ \A s2 \in Slots : tasks[t][s2].op = "initialize" => s2 = s
             /\ Cardinality({s2 \in Slots : /\ tasks'[t][s2].op = "initialize"
                                            /\ tasks'[t][s2].pc \in RemotePcs}) <= 1]_vars

\* the second of two queued increments is at the remote store, the first
\* having been re-submitted and completed before
SecondDrainedInFlight ==
    \E t \in Tabs, s \in Slots :
        /\ Len(enqueued[t]) = 2
        /\ drained[t] = enqueued[t]
        /\ tasks[t][s].op = "initialize"
        /\ tasks[t][s].pc \in RemotePcs
\* initialize() of tab t has started and has not ended
InitializingTab(t) == \E s \in Slots : tasks[t][s].op = "initialize"

\* C21: the initialization probe decides the mode: a probe read that returns
\* without error leaves fallbackEnabled false, one that returns an error or
\* throws leaves it true, and the mode stays so until initialize() has ended.
ProbeDecidesMode ==
    [][\A t \in Tabs :
          /\ \A s \in Slots, o \in ReadOutcomes :
                 InitializeProbed(t, s, o)
                 => /\ sys'[t].initialized
                    /\ sys'[t].fallbackEnabled = (o \in {"error", "throw"})
          /\ (sys[t].initialized /\ InitializingTab(t))
             => sys'[t].fallbackEnabled = sys[t].fallbackEnabled]_vars

\* one tab has ended its initialization in RemoteBacked mode and another one
\* in LocalOnly mode, each after re-submitting a queued increment
BothModesReached ==
    \E t1, t2 \in Tabs :
        /\ sys[t1].initialized /\ ~sys[t1].fallbackEnabled
        /\ sys[t2].initialized /\ sys[t2].fallbackEnabled
        /\ \A t \in {t1, t2} : ~InitializingTab(t) /\ Len(drained[t]) > 0
\* the state of tab t's engine
Mode(t) ==
    IF sys[t].initialized
    THEN (IF sys[t].fallbackEnabled THEN "LocalOnly" ELSE "RemoteBacked")
    ELSE (IF sys[t].initializing THEN "Initializing" ELSE "Uninitialized")

ModeAfter(mode) ==
    CASE mode = "Uninitialized" -> {"Uninitialized", "Initializing"}
      [] mode = "Initializing" -> {"Initializing", "RemoteBacked", "LocalOnly"}
      [] OTHER -> {mode}

\* C22: the engine's state only moves Uninitialized -> Initializing ->
\* {RemoteBacked, LocalOnly}: initialized never returns to false, and once
\* initialized no step of incrementCounter, getCounterValue or
\* syncWithDatabase, whatever the outcome of its remote call, changes the mode.
ModeOnlyMovesForward ==
    [][\A t \in Tabs :
          /\ Mode(t)' \in ModeAfter(Mode(t))
          /\ sys[t].initialized => sys'[t].initialized]_vars

\* a RemoteBacked tab has had a remote call of incrementCounter rejected
\* (the mirror was raised without the per-session flag) and is RemoteBacked still
RemoteBackedAfterFailure ==
    \E t \in Tabs, c \in CounterIds :
        /\ Mode(t) = "RemoteBacked"
        /\ enqueued[t] = <<>>
        /\ ret.tab = t /\ ret.fn = "incrementCounter" /\ ret.counterId = c
        /\ getItem(sessionStorage[t], SessionKey(c)) = null
\* C23: in RemoteBacked mode an incrementCounter call for a counter whose
\* per-session flag is not set writes the remote counter as 1 if the row is
\* absent and as the count it read plus one otherwise, raises the local
\* mirror by one, returns the larger of the two results, and sets the
\* per-session flag (every remote call of it succeeding).
IncrementRemoteBacked ==
    [][\A t \in Tabs, s \in Slots :
          LET task == tasks[t][s]
              c == task.counterId
              localCount == LocalCount(localStorage, c) + 1
              ended(remoteCount) ==
                  /\ page_counters'[c] = remoteCount
                  /\ LocalCount(localStorage', c) = localCount
                  /\ ret'.tab = t /\ ret'.fn = "incrementCounter"
                  /\ ret'.value = (IF remoteCount >= localCount THEN remoteCount
                                   ELSE localCount)
                  /\ Truthy(getItem(sessionStorage'[t], SessionKey(c)))
          IN  /\ IncrementRead(t, s, "ok")
                 => IF HasRow(page_counters, c)
                    THEN /\ tasks'[t][s].pc = "inc_update"
                         /\ tasks'[t][s].newCount = page_counters[c] + 1
                    ELSE /\ tasks'[t][s].pc = "inc_insert"
                         /\ tasks'[t][s].newCount = 1
              /\ (IncrementInserted(t, s, "ok") /\ ~HasRow(page_counters, c))
                 => ended(1)
              /\ IncrementUpdated(t, s, "ok")
                 => ended(task.newCount)]_vars

\* a call has raised a remote count above the local mirror and returned it
IncrementReturnedRemote ==
    \E t \in Tabs, c \in CounterIds :
        /\ ret.tab = t /\ ret.fn = "incrementCounter" /\ ret.counterId = c
        /\ HasRow(page_counters, c)
        /\ ret.value = page_counters[c]
        /\ ret.value > LocalCount(localStorage, c)
        /\ LocalCount(localStorage, c) > 1
        /\ Truthy(getItem(sessionStorage[t], SessionKey(c)))
\* the latest 2 x L allowed calls are the L calls of one window followed by
\* the L calls of the next one
TwoFullWindows(h, limit) ==
    /\ Len(h) >= 2 * limit
    /\ h[Len(h) - 2 * limit + 1].resetTime = h[Len(h) - limit].resetTime
    /\ h[Len(h) - limit + 1].resetTime = h[Len(h)].resetTime
    /\ h[Len(h) - limit].resetTime # h[Len(h)].resetTime

\* C24 as stated: with a fixed limit L and interval I and no teardown, any
\* time span of length I holds at most 2 x L allowed calls for one action,
\* and 2 x L is reached: the L calls of one window and the L calls made
\* after its reset lie within one span of length I.
RateSpanAdmitsTwiceLimit ==
    \A t \in Tabs, a \in RateActions :
        LET h == allowedAt[t][a]
            limit == rateArgs[a].limit
            interval == rateArgs[a].interval
        IN  /\ \A i, j \in 1..Len(h) :
                   j - i >= 2 * limit => h[j].at - h[i].at > interval
            /\ TwoFullWindows(h, limit)
                   => h[Len(h)].at - h[Len(h) - 2 * limit + 1].at <= interval

\* C24 amended: any time span of length I holds at most 2 x L - 1 allowed
\* calls for one action: 2 x L allowed calls in a row always take more than I.
RateSpanAdmitsBelowTwiceLimit ==
    \A t \in Tabs, a \in RateActions :
        LET h == allowedAt[t][a]
            limit == rateArgs[a].limit
            interval == rateArgs[a].interval
        IN  \A i, j \in 1..Len(h) :
                j - i >= 2 * limit - 1 => h[j].at - h[i].at > interval

\* 2 x L - 1 allowed calls lie within one interval: the last call of one
\* window and the L calls made right after its reset, for a limit of 2 or more
RateBoundaryBurst ==
    \E t \in Tabs, a \in RateActions :
        LET h == allowedAt[t][a]
            limit == rateArgs[a].limit
        IN  /\ limit >= 2
            /\ TwoFullWindows(h, limit)
            /\ h[Len(h)].at - h[Len(h) - 2 * limit + 2].at <= rateArgs[a].interval
\* C25: verifyCSRFToken(token) returns true exactly when a durable token
\* exists, now <= its stored expiry, and token equals the durable copy or
\* the volatile copy; in every other case it returns false.
CSRFVerifiesExactly ==
    [][\A t \in Tabs, token \in Tokens :
          verifyCSRFToken(t, token) =>
            LET durable == getItem(localStorage, <<"csrf_token">>)
                volatile == getItem(sessionStorage[t], <<"csrf_token">>)
                expires == parseInt(getItem(localStorage, <<"csrf_token_expires">>))
            IN  result'.ok <=>
                  /\ durable # null
                  /\ expires # NaN /\ now <= expires
                  /\ \/ token = durable
                     \/ volatile # null /\ token = volatile]_vars
\* C26: when persisting one winner fails in selectWinners (the insert
\* returns an error or the call is rejected), the call goes on with the
\* remaining winners and returns success with the complete list of drawn
\* winners.
SaveFailureKeepsGoing ==
    [][/\ \A outcome \in {"error", "throw"} :
             SelectWinnersSave(outcome)
             => /\ selection'.pc = "save"
                /\ selection'.saving = selection.saving + 1
                /\ selection'.winners = selection.winners
                /\ selected' = selected
       /\ SelectWinnersReturn
             => /\ selected'.success
                /\ selected'.winners = selection.winners
                /\ Len(selected'.winners) = selection.winnersCount]_vars
\* a key or an id that names a click mirror, a history or a details record
ClickOrRecord(key) ==
    \E i \in DOMAIN key : key[i] \in {"click_", "_history", "_details"}

\* a step of a syncWithDatabase run in slot s of tab t
SyncStep(t, s) ==
    \/ tasks[t][s].op = "syncWithDatabase" /\ tasks'[t][s] # tasks[t][s]
    \/ tasks'[t][s].op = "syncWithDatabase" /\ tasks'[t][s] # tasks[t][s]
    \/ SyncWithDatabase(t, s)

\* C27: no step of syncWithDatabase changes the click_counters table or works
\* on it, and none reads, inserts or updates a page_counters row for a local
\* key containing click_, _history or _details
SyncLeavesClicksAlone ==
    [][\A t \in Tabs, s \in Slots :
          SyncStep(t, s) =>
            /\ click_counters' = click_counters
            /\ tasks'[t][s].pc \in {"idle", "sync_read", "sync_insert", "sync_update"}
            /\ tasks'[t][s].pc # "idle" => ~ClickOrRecord(tasks'[t][s].counterId)
            /\ \A id \in DOMAIN page_counters' :
                  (id \notin DOMAIN page_counters \/ page_counters'[id] # page_counters[id])
                    => ~ClickOrRecord(id)]_vars

\* a reconciliation returned true while a click mirror and its history are
\* in localStorage and the click is in click_counters
SyncedBesideClicks ==
    /\ ret.fn = "syncWithDatabase" /\ ret.value = 1
    /\ ClickCount(localStorage, <<"buy">>) > 0
    /\ getItem(localStorage, ClickKey(<<"buy">>) \o <<"_history">>) # null
    /\ HasRow(click_counters, <<"buy">>)
\* the history stored for a page counter and for a button
PageHistory(ls, counterId) == getItem(ls, CounterKey(counterId) \o <<"_history">>).v

ClickHistory(ls, buttonId) == getItem(ls, ClickKey(buttonId) \o <<"_history">>).v

\* history `after` is history `before` with one entry pushed at the present
\* instant and then cut to its `cap` most recent entries, in their order
PushedAndCapped(before, after, cap) ==
    /\ after # <<>>
    /\ after[Len(after)].timestamp = toISOString(now)
    /\ LET pushed == Append(before, after[Len(after)])
           dropped == Len(pushed) - Len(after)
       IN  /\ Len(after) = Min(Len(pushed), cap)
           /\ \A i \in DOMAIN after : after[i] = pushed[dropped + i]

\* the step counts a visit of counter c: some tab sets its session flag
VisitCounted(c) ==
    \E t \in Tabs :
        /\ getItem(sessionStorage[t], SessionKey(c)) = null
        /\ getItem(sessionStorage'[t], SessionKey(c)) # null

\* the step counts a click of button b in a tab in LocalOnly mode
ClickCounted(b) ==
    \E t \in Tabs, s \in Slots : sys[t].fallbackEnabled /\ IncrementClickCounter(t, s, b)

\* C28: a page counter's local history never holds more than 100 entries and
\* a click counter's never more than 50; every step that counts a visit or a
\* click, and every step that changes a history, pushes one entry and keeps
\* the most recent entries, up to the cap, in their order
HistoriesCapped ==
    [][/\ \A c \in CounterIds :
            /\ Len(PageHistory(localStorage', c)) <= HistoryCap
            /\ (VisitCounted(c) \/ PageHistory(localStorage', c) # PageHistory(localStorage, c))
                 => PushedAndCapped(PageHistory(localStorage, c),
                                    PageHistory(localStorage', c), HistoryCap)
       /\ \A b \in ButtonIds :
            /\ Len(ClickHistory(localStorage', b)) <= ClickHistoryCap
            /\ (ClickCounted(b) \/ ClickHistory(localStorage', b) # ClickHistory(localStorage, b))
                 => PushedAndCapped(ClickHistory(localStorage, b),
                                    ClickHistory(localStorage', b), ClickHistoryCap)]_vars

\* both histories are full, have lost their oldest entry and end with an
\* entry pushed after the clock was advanced
HistoriesOverflowed ==
    LET visits == PageHistory(localStorage, <<"main">>)
        clicks == ClickHistory(localStorage, <<"buy">>)
    IN  /\ Len(visits) = HistoryCap
        /\ visits[1] # PastVisits(HistoryCap)[1]
        /\ visits[Len(visits)].timestamp = toISOString(MsPerSecond)
        /\ Len(clicks) = ClickHistoryCap
        /\ clicks[1] # PastClicks(ClickHistoryCap)[1]
        /\ clicks[Len(clicks)].timestamp = toISOString(MsPerSecond)
\* C29: a counter's local mirror, 0 when the page was first loaded, has never
\* risen by more than the number of incrementCounter calls callers have made;
\* a call made before initialization completes is counted once, also after
\* initialize() has drained the queue
MirrorRiseWithinCalls ==
    \A c \in CounterIds : LocalCount(localStorage, c) <= calls
\* tab t's browsing session has counted its visit of counter c
SessionCounted(t, c) == getItem(sessionStorage[t], SessionKey(c)) # null

\* C30: once every browsing session has counted its visit of a counter and no
\* call is in flight, the remote count, 1 at the start, has risen by the
\* number of sessions, whatever the interleaving of their reads and writes
NoIncrementLost ==
    \A c \in CounterIds :
        (/\ \A t \in Tabs : SessionCounted(t, c)
         /\ \A t \in Tabs, s \in Slots : tasks[t][s] = IdleTask)
          => page_counters[c] = 1 + Cardinality(Tabs)
\* C31: a validateSession() call in a tab other than the one that created the
\* session, made before the session expires, leaves the durable session
\* record in place
ForeignValidateKeepsSession ==
    [][\A t \in Tabs :
          (/\ validateSession(t)
           /\ creator # "" /\ creator # t
           /\ HasSession(localStorage)
           /\ ~SessionExpired(StoredSession(localStorage), now))
            => HasSession(localStorage')]_vars
\* C32: with no session teardown, the submit handler of a secured form passes
\* its CSRF check as long as the token the form was given is less than 1 hour
\* old, whichever forms were secured after it
SecuredFormsAllSubmit ==
    [][\A t \in Tabs, f \in FormIds :
          (/\ SubmitForm(t, f)
           /\ now - forms[t][f].at < csrfLifetime)
            => result'.value # <<"csrf">>]_vars
\* C33: once checkRateLimit has denied an action, no checkRateLimit call for
\* that action is allowed before the resetTime of the bucket that denied it,
\* whatever other SecuritySystem operations run in between
DenialLastsUntilReset ==
    [][\A t \in Tabs, a \in RateActions :
          (checkRateLimit(t, a) /\ now < deniedUntil[t][a]) => ~result'.ok]_vars
\* C34: a finishGiveaway call whose selectWinners returned success=false, and
\* a step in which finishGiveaway returns success=false, leave the giveaway's
\* is_finished flag as it was: false
FinishedOnlyAfterSelection ==
    [][\A c \in Callers :
          (\/ /\ finish[c].pc = "update"
              /\ finish'[c] # finish[c]
              /\ ~finish[c].winnersResult.success
           \/ /\ ~finish[c].returned
              /\ finish'[c].returned
              /\ ~finish'[c].success)
            => giveaways'.is_finished = giveaways.is_finished]_vars

\* C35: under any interleaving of the finishGiveaway calls for a giveaway,
\* at most one of the calls has persisted winners, and a call that found
\* is_finished already true has persisted nothing
WinnersPersistedOnce ==
    /\ \A c, d \in Callers :
          c # d => ~(finish[c].persisted > 0 /\ finish[d].persisted > 0)
    /\ \A c \in Callers :
          (finish[c].returned /\ ~finish[c].winnersResult.returned)
            => finish[c].persisted = 0
\* C36: once initialized is true the queue receives no entry: it stays as it
\* is until initialize() empties it, and an incrementCounter call made then
\* is not queued but goes on to its first remote call, or returns, at once
LateCallsAreNotQueued ==
    [][\A t \in Tabs :
          sys[t].initialized =>
            /\ \/ sys'[t].pendingIncrements = sys[t].pendingIncrements
               \/ sys'[t].pendingIncrements = <<>>
            /\ \A s \in Slots, c \in CounterIds, o \in QueueOptions :
                  IncrementCounter(t, s, c, o) =>
                    /\ sys'[t].pendingIncrements = sys[t].pendingIncrements
                    /\ tasks'[t][s].pc \in {"inc_read", "flag_read", "idle"}]_vars

\* a call made during the drain has returned while the increment queued
\* before it is still waiting for the remote store
LateCallOvertakesDrain ==
    \E t \in Tabs :
        /\ sys[t].initialized
        /\ Len(sys[t].pendingIncrements) = 1
        /\ \A u \in Tabs \ {t} : sys[u] = NewCounterSystem
        /\ calls = 2
        /\ \E s \in Slots :
              /\ tasks[t][s].op = "initialize"
              /\ tasks[t][s].pc \in {"inc_read", "inc_insert", "inc_update"}
              /\ \A s2 \in Slots \ {s} : tasks[t][s2] = IdleTask
        /\ ret.tab = t /\ ret.fn = "incrementCounter"
\* C37: a deleteUser call deletes neither the row of its caller nor, unless
\* the caller is a superadmin, a row whose role is admin, whatever the read
\* of the role returned
DeleteUserSparesAdmins ==
    [][\A a \in AdminIds, outcome \in WriteOutcomes :
          (DeleteUserDeleted(a, outcome) /\ users' # users) =>
            /\ deletion[a].userId # currentUser(a).id
            /\ users[deletion[a].userId] = "admin" => currentUser(a).role = "superadmin"]_vars
\* C38: no step of initialize, incrementCounter, incrementClickCounter,
\* getCounterValue, getClickCounter or syncWithDatabase leaves the local
\* mirror of a page counter or of a click counter smaller than it was
MirrorsNeverDecrease ==
    [][/\ \A c \in CounterIds :
             LocalCount(localStorage', c) >= LocalCount(localStorage, c)
       /\ \A b \in ButtonIds :
             ClickCount(localStorage', b) >= ClickCount(localStorage, b)]_vars

\* an incrementCounter call has written the mirror of a counter whose remote
\* count is smaller than the mirror was
MirrorRoseAboveRemote ==
    \E t \in Tabs, c \in CounterIds :
        /\ changes[t][c].local >= 1
        /\ c \in DOMAIN page_counters
        /\ page_counters[c] + 1 < LocalCount(localStorage, c)
        /\ ret.fn = "incrementCounter"
\* C39: no step of getCounterValue changes the remote tables, the durable
\* store (mirror, details, histories) or the session store (flags); an
\* incrementCounter call that reaches the flag test and finds the flag set,
\* made by a caller or by the drain of initialize(), changes none of them
\* either and returns the value getCounterValue returns: the larger of the
\* remote count and the mirror when the read succeeds, the mirror otherwise
FlaggedIncrementOnlyReads ==
    [][\A t \in Tabs, s \in Slots :
          LET StoresUnchanged ==
                  /\ localStorage' = localStorage
                  /\ sessionStorage' = sessionStorage
                  /\ page_counters' = page_counters
                  /\ click_counters' = click_counters
              Flagged(c) ==
                  /\ ~NotReady(sys[t])
                  /\ Truthy(getItem(sessionStorage[t], SessionKey(c)))
              Started(c, fn) ==
                  IF ~sys[t].fallbackEnabled /\ sys[t].initialized
                  THEN tasks'[t][s].pc \in {"get_read", "flag_read"} /\ ret' = ret
                  ELSE /\ ret'.fn = fn /\ ret'.get
                       /\ ret'.value = LocalCount(localStorage, c)
              Ended(c, o, fn) ==
                  /\ ret'.fn = fn /\ ret'.get /\ ret'.counterId = c
                  /\ ret'.value = IF o = "ok" /\ HasRow(page_counters, c)
                                  THEN Max(page_counters[c], LocalCount(localStorage, c))
                                  ELSE LocalCount(localStorage, c)
          IN  /\ \A c \in CounterIds :
                    /\ GetCounterValue(t, s, c)
                         => StoresUnchanged /\ Started(c, "getCounterValue")
                    /\ \A o \in OptionSet :
                          (Flagged(c) /\ IncrementCounter(t, s, c, o))
                            => StoresUnchanged /\ Started(c, "incrementCounter")
              /\ (/\ tasks[t][s].pc = "drain"
                  /\ Flagged(PendingIncrement(sys[t].pendingIncrements,
                                              tasks[t][s].idx).counterId)
                  /\ InitializeDrain(t, s))
                    => StoresUnchanged
              /\ \A o \in ReadOutcomes :
                    /\ GetCounterValueDone(t, s, o)
                         => /\ StoresUnchanged
                            /\ Ended(tasks[t][s].counterId, o, "getCounterValue")
                    /\ IncrementFlagRead(t, s, o)
                         => /\ StoresUnchanged
                            /\ Ended(tasks[t][s].counterId, o, "incrementCounter")]_vars

\* an incrementCounter call that found the flag set has returned the remote
\* count, which is larger than the mirror
FlaggedIncrementReturnedRemote ==
    \E c \in CounterIds :
        /\ ret.fn = "incrementCounter" /\ ret.get /\ ret.counterId = c
        /\ HasRow(page_counters, c)
        /\ ret.value = page_counters[c]
        /\ ret.value > LocalCount(localStorage, c)
        /\ Truthy(getItem(sessionStorage[ret.tab], SessionKey(c)))
====
